---- MODULE Spec2Model ----
(***************************************************************************)
(* A model of go-openapispec-generator: the declaration scanner, the       *)
(* handler analyzer's inference helpers and the schema generator with its  *)
(* reference-integrity passes.                                             *)
(*                                                                         *)
(* Go strings are TLA+ strings; the string functions of the Go standard    *)
(* library that the code calls (strings.Contains, strings.HasPrefix,       *)
(* strings.ReplaceAll, strings.ToLower, the regular expressions) are       *)
(* written out over the characters.  A Go map is a function; iterating a   *)
(* Go map visits the keys in an order the runtime chooses, which is a      *)
(* nondeterministic choice here.  A nil pointer / nil interface is the     *)
(* empty sequence, a non-nil one a sequence of length one.                 *)
(*                                                                         *)
(* Free text that is only copied through (Description, Example, Summary,   *)
(* Info, Servers, SecuritySchemes) is not part of the state.               *)
(***************************************************************************)
EXTENDS Integers, Sequences, FiniteSets, TLC

(***************************************************************************)
(* Strings                                                                 *)
(***************************************************************************)
UpperChars == "ABCDEFGHIJKLMNOPQRSTUVWXYZ"
LowerChars == "abcdefghijklmnopqrstuvwxyz"
DigitChars == "0123456789"

Char(s, i) == SubSeq(s, i, i)

Contains(s, sub) ==
    \E i \in 1..(Len(s) - Len(sub) + 1) : SubSeq(s, i, i + Len(sub) - 1) = sub

HasPrefix(s, p) == Len(p) <= Len(s) /\ SubSeq(s, 1, Len(p)) = p

HasSuffix(s, p) == Len(p) <= Len(s) /\ SubSeq(s, Len(s) - Len(p) + 1, Len(s)) = p

TrimPrefix(s, p) == IF HasPrefix(s, p) THEN SubSeq(s, Len(p) + 1, Len(s)) ELSE s

\* strings.Index, 1-based; 0 when sub does not occur
Index(s, sub) ==
    LET hits == {i \in 1..(Len(s) - Len(sub) + 1) : SubSeq(s, i, i + Len(sub) - 1) = sub}
    IN IF hits = {} THEN 0 ELSE CHOOSE i \in hits : \A j \in hits : i <= j

\* strings.LastIndex, 1-based; 0 when sub does not occur
LastIndex(s, sub) ==
    LET hits == {i \in 1..(Len(s) - Len(sub) + 1) : SubSeq(s, i, i + Len(sub) - 1) = sub}
    IN IF hits = {} THEN 0 ELSE CHOOSE i \in hits : \A j \in hits : j <= i

UpperSet == {Char(UpperChars, i) : i \in 1..Len(UpperChars)}
LowerSet == {Char(LowerChars, i) : i \in 1..Len(LowerChars)}
DigitSet == {Char(DigitChars, i) : i \in 1..Len(DigitChars)}
IdentSet == UpperSet \cup LowerSet \cup DigitSet \cup {"_"}

IsUpper(c) == c \in UpperSet
IsLower(c) == c \in LowerSet
IsDigit(c) == c \in DigitSet
IsLetter(c) == c \in UpperSet \/ c \in LowerSet
IsIdentChar(c) == c \in IdentSet

LowerOf == [c \in UpperSet |-> Char(LowerChars, Index(UpperChars, c))]
UpperOf == [c \in LowerSet |-> Char(UpperChars, Index(LowerChars, c))]

LowerChar(c) == IF c \in UpperSet THEN LowerOf[c] ELSE c
UpperChar(c) == IF c \in LowerSet THEN UpperOf[c] ELSE c

\* strings.ToLower
ToLower(s) ==
    LET f[i \in 0..Len(s)] == IF i = 0 THEN "" ELSE f[i - 1] \o LowerChar(Char(s, i))
    IN f[Len(s)]

\* strings.ToUpper
ToUpper(s) ==
    LET f[i \in 0..Len(s)] == IF i = 0 THEN "" ELSE f[i - 1] \o UpperChar(Char(s, i))
    IN f[Len(s)]

\* strings.EqualFold on ASCII
EqualFold(a, b) == ToLower(a) = ToLower(b)

\* strings.ReplaceAll(s, c, "") for a one-character c
RemoveChar(s, c) ==
    LET f[i \in 0..Len(s)] ==
            IF i = 0 THEN ""
            ELSE f[i - 1] \o (IF Char(s, i) = c THEN "" ELSE Char(s, i))
    IN f[Len(s)]

\* strings.ReplaceAll(s, c, d) for one-character c
ReplaceChar(s, c, d) ==
    LET f[i \in 0..Len(s)] ==
            IF i = 0 THEN ""
            ELSE f[i - 1] \o (IF Char(s, i) = c THEN d ELSE Char(s, i))
    IN f[Len(s)]

\* regexp `[^a-zA-Z0-9_]` replaced by ""
KeepIdentChars(s) ==
    LET f[i \in 0..Len(s)] ==
            IF i = 0 THEN ""
            ELSE f[i - 1] \o (IF IsIdentChar(Char(s, i)) THEN Char(s, i) ELSE "")
    IN f[Len(s)]

\* strings.TrimSpace
TrimSpace(s) ==
    LET nonsp == {i \in 1..Len(s) : Char(s, i) # " "}
    IN IF nonsp = {} THEN ""
       ELSE SubSeq(s, CHOOSE i \in nonsp : \A j \in nonsp : i <= j,
                      CHOOSE i \in nonsp : \A j \in nonsp : j <= i)

\* the part of a comma-separated tag before the first comma: strings.Split(tag, ",")[0]
FirstPart(s) ==
    LET k == Index(s, ",") IN IF k = 0 THEN s ELSE SubSeq(s, 1, k - 1)

Range(f) == {f[x] : x \in DOMAIN f}

\* the sequences that list every element of S exactly once (the orders in
\* which a Go map iteration can visit the key set S)
Orders(S) == {o \in [1..Cardinality(S) -> S] : Range(o) = S}

(***************************************************************************)
(* Generator: names and types                                              *)
(***************************************************************************)
RefPrefix == "#/components/schemas/"

\* a cleaning that strips the pointer markers and nothing else
cleanSchemaName_keepQualifier(name) == RemoveChar(name, "*")

\* cleanSchemaName: strip pointer markers, the package qualifier and every
\* character outside [a-zA-Z0-9_]; prefix "Schema" unless the name starts
\* with a letter; "UnknownSchema" for an empty result
cleanSchemaName(name) ==
    LET noStar == RemoveChar(name, "*")
        idx == LastIndex(noStar, ".")
        noPkg == IF idx # 0 THEN SubSeq(noStar, idx + 1, Len(noStar)) ELSE noStar
        ident == KeepIdentChars(noPkg)
        lettered == IF Len(ident) > 0 /\ ~IsLetter(Char(ident, 1))
                    THEN "Schema" \o ident ELSE ident
    IN IF lettered = "" THEN "UnknownSchema" ELSE lettered

\* Generator.cleanTypeName: strip pointer markers and the package qualifier
cleanTypeName(typeName) ==
    LET noStar == RemoveChar(typeName, "*")
        idx == LastIndex(noStar, ".")
    IN IF idx # 0 THEN SubSeq(noStar, idx + 1, Len(noStar)) ELSE noStar

builtinTypes ==
    {"string", "int", "int8", "int16", "int32", "int64", "uint", "uint8",
     "uint16", "uint32", "uint64", "float32", "float64", "bool", "byte",
     "rune", "interface{}", "interface", "any", "time.Time", "error", "Time"}

isCustomType(typeName) ==
    LET cleanType == cleanTypeName(typeName)
    IN /\ cleanType # ""
       /\ cleanType \notin builtinTypes
       /\ IsUpper(Char(cleanType, 1))

\* Generator.toSnakeCase: regexp ([a-z0-9])([A-Z]) -> ${1}_${2}, then lower case
toSnakeCase(str) ==
    IF Contains(str, "_") /\ ToLower(str) = str THEN str
    ELSE LET f[i \in 0..Len(str)] ==
                 IF i = 0 THEN ""
                 ELSE f[i - 1]
                      \o (IF /\ i > 1
                             /\ IsUpper(Char(str, i))
                             /\ (IsLower(Char(str, i - 1)) \/ IsDigit(Char(str, i - 1)))
                          THEN "_" ELSE "")
                      \o Char(str, i)
         IN ToLower(f[Len(str)])

extractMapValueType(mapType0) ==
    LET mapType == TrimSpace(RemoveChar(mapType0, "*"))
        keyEnd == Index(SubSeq(mapType, 5, Len(mapType)), "]")
    IN IF ~HasPrefix(mapType, "map[") THEN "interface{}"
       ELSE IF keyEnd = 0 THEN "interface{}"
       ELSE IF 4 + keyEnd >= Len(mapType) THEN "interface{}"
       ELSE TrimSpace(SubSeq(mapType, 5 + keyEnd, Len(mapType)))

(***************************************************************************)
(* Generator: schemas                                                      *)
(***************************************************************************)
NilAP == [kind |-> "nil", schema |-> <<>>]
TrueAP == [kind |-> "true", schema |-> <<>>]
SchemaAP(s) == [kind |-> "schema", schema |-> <<s>>]

\* a nil interface{} default; a string default is kind "string", an int "int"
NilDefault == [kind |-> "nil", s |-> "", n |-> 0]

\* the zero value of the Schema struct
Schema0 ==
    [Type |-> "", Format |-> "", Ref |-> "", Properties |-> <<>>,
     Required |-> <<>>, Items |-> <<>>, AdditionalProperties |-> NilAP,
     Enum |-> <<>>, Default |-> NilDefault]

TypeSchema(t, f) == [Schema0 EXCEPT !.Type = t, !.Format = f]
RefSchema(name) == [Schema0 EXCEPT !.Ref = RefPrefix \o name]

RECURSIVE generateSchemaFromFieldType(_)
generateSchemaFromFieldType(fieldType) ==
    LET cleanType == cleanTypeName(fieldType)
    IN IF HasPrefix(cleanType, "[]")
       THEN [TypeSchema("array", "") EXCEPT
                !.Items = <<generateSchemaFromFieldType(TrimPrefix(cleanType, "[]"))>>]
       ELSE CASE cleanType = "string" -> TypeSchema("string", "")
              [] cleanType \in {"int", "int32", "int8", "int16"} -> TypeSchema("integer", "int32")
              [] cleanType = "int64" -> TypeSchema("integer", "int64")
              [] cleanType \in {"uint", "uint32", "uint8", "uint16"} -> TypeSchema("integer", "int32")
              [] cleanType = "uint64" -> TypeSchema("integer", "int64")
              [] cleanType = "float32" -> TypeSchema("number", "float")
              [] cleanType \in {"float64", "float"} -> TypeSchema("number", "double")
              [] cleanType \in {"bool", "boolean"} -> TypeSchema("boolean", "")
              [] cleanType \in {"time.Time", "Time"} -> TypeSchema("string", "date-time")
              [] cleanType = "byte" -> TypeSchema("string", "byte")
              [] cleanType = "rune" -> TypeSchema("integer", "int32")
              [] OTHER -> IF isCustomType(cleanType)
                          THEN RefSchema(cleanSchemaName(cleanType))
                          ELSE TypeSchema("object", "")

generateSchemaFromField(field) ==
    LET typeToCheck == IF field.OriginalType = "" THEN field.Type ELSE field.OriginalType
        cleanType == RemoveChar(typeToCheck, "*")
        elementType == cleanTypeName(TrimPrefix(cleanType, "[]"))
        mapValueType == extractMapValueType(cleanType)
        cleanRefType == cleanTypeName(cleanType)
    IN CASE HasPrefix(cleanType, "[]") ->
              [TypeSchema("array", "") EXCEPT
                  !.Items = IF isCustomType(elementType)
                            THEN <<RefSchema(cleanSchemaName(elementType))>>
                            ELSE <<generateSchemaFromFieldType(elementType)>>]
         [] Contains(cleanType, "time.Time") \/ cleanType = "Time" ->
              TypeSchema("string", "date-time")
         [] HasPrefix(cleanType, "map[") ->
              [TypeSchema("object", "") EXCEPT
                  !.AdditionalProperties =
                      IF mapValueType \in {"interface{}", "interface", "any"} THEN TrueAP
                      ELSE IF isCustomType(mapValueType)
                      THEN SchemaAP(RefSchema(cleanSchemaName(mapValueType)))
                      ELSE SchemaAP(generateSchemaFromFieldType(mapValueType))]
         [] cleanType \in {"interface{}", "interface"} ->
              [TypeSchema("object", "") EXCEPT !.AdditionalProperties = TrueAP]
         [] Contains(cleanType, "string") -> TypeSchema("string", "")
         [] Contains(cleanType, "int64") -> TypeSchema("integer", "int64")
         [] Contains(cleanType, "int32") -> TypeSchema("integer", "int32")
         [] Contains(cleanType, "int") -> TypeSchema("integer", "int32")
         [] Contains(cleanType, "float64") -> TypeSchema("number", "double")
         [] Contains(cleanType, "float32") -> TypeSchema("number", "float")
         [] Contains(cleanType, "bool") -> TypeSchema("boolean", "")
         [] OTHER -> IF isCustomType(cleanRefType)
                     THEN RefSchema(cleanSchemaName(cleanRefType))
                     ELSE TypeSchema("object", "")

\* the property key generateSchemaFromModel gives a field
fieldKey(field) ==
    IF field.JSONTag = "" THEN toSnakeCase(field.Name)
    ELSE IF FirstPart(field.JSONTag) # "" /\ FirstPart(field.JSONTag) # "-"
    THEN FirstPart(field.JSONTag)
    ELSE field.Name

\* generateSchemaFromModel: fields in order; a later field with the same key
\* replaces the property, the required list is appended to
generateSchemaFromModel(model) ==
    LET fields == model.Fields
        kept == {i \in 1..Len(fields) : fields[i].JSONTag # "-"}
        keys == {fieldKey(fields[i]) : i \in kept}
        last(k) == CHOOSE i \in kept :
                      /\ fieldKey(fields[i]) = k
                      /\ \A j \in kept : fieldKey(fields[j]) = k => j <= i
        req[i \in 0..Len(fields)] ==
            IF i = 0 THEN <<>>
            ELSE IF i \in kept /\ fields[i].Required
            THEN Append(req[i - 1], fieldKey(fields[i]))
            ELSE req[i - 1]
    IN [TypeSchema("object", "") EXCEPT
           !.Properties = [k \in keys |-> generateSchemaFromField(fields[last(k)])],
           !.Required = req[Len(fields)]]

(***************************************************************************)
(* Generator: paths and operations                                         *)
(***************************************************************************)
\* the end of the run of [a-zA-Z0-9_] characters that starts at position i
IdentEnd(s, i) ==
    LET stops == {j \in i..Len(s) : ~IsIdentChar(Char(s, j))}
    IN IF stops = {} THEN Len(s) ELSE (CHOOSE j \in stops : \A k \in stops : j <= k) - 1

\* convertPathFormat: regexp :([a-zA-Z][a-zA-Z0-9_]*) -> {$1}, and a leading /
convertPathFormat(path) ==
    LET conv[i \in 1..(Len(path) + 1)] ==
            IF i > Len(path) THEN ""
            ELSE IF /\ Char(path, i) = ":"
                    /\ i < Len(path)
                    /\ IsLetter(Char(path, i + 1))
            THEN "{" \o SubSeq(path, i + 1, IdentEnd(path, i + 1)) \o "}"
                 \o conv[IdentEnd(path, i + 1) + 1]
            ELSE Char(path, i) \o conv[i + 1]
        converted == conv[1]
    IN IF HasPrefix(converted, "/") THEN converted ELSE "/" \o converted

\* validatePathParameters: the submatches of regexp \{([^}]+)\} in the path,
\* in order of occurrence
pathParams(path) ==
    LET closeAfter(i) ==
            LET cs == {j \in (i + 1)..Len(path) : Char(path, j) = "}"}
            IN IF cs = {} THEN 0 ELSE CHOOSE j \in cs : \A k \in cs : j <= k
        scan[i \in 1..(Len(path) + 1)] ==
            IF i > Len(path) THEN <<>>
            ELSE IF Char(path, i) = "{" /\ closeAfter(i) > i + 1
            THEN <<SubSeq(path, i + 1, closeAfter(i) - 1)>> \o scan[closeAfter(i) + 1]
            ELSE scan[i + 1]
    IN scan[1]

\* a test that looks for auth in the case it is written in
hasAuthMiddleware_caseSensitive(middleware) ==
    \E i \in 1..Len(middleware) : Contains(middleware[i], "auth")

hasAuthMiddleware(middleware) ==
    \E i \in 1..Len(middleware) : Contains(ToLower(middleware[i]), "auth")

generateParameterSchema(param) ==
    CASE param.Type \in {"integer", "int"} -> TypeSchema("integer", "int32")
      [] param.Type = "int64" -> TypeSchema("integer", "int64")
      [] param.Type \in {"number", "float", "double"} -> TypeSchema("number", "double")
      [] param.Type \in {"boolean", "bool"} -> TypeSchema("boolean", "")
      [] param.Type = "array" ->
           [TypeSchema("array", "") EXCEPT !.Items = <<TypeSchema("string", "")>>]
      [] OTHER -> TypeSchema("string", "")

generateOperationID(route) ==
    LET p1 == ReplaceChar(convertPathFormat(route.Path), "/", "_")
        p2 == RemoveChar(RemoveChar(p1, "{"), "}")
        p3 == ReplaceChar(p2, "-", "_")
    IN ToLower(route.Method) \o "_" \o TrimPrefix(p3, "_")

generateDescription(route) ==
    route.Handler \o " handler for " \o ToLower(route.Method) \o " " \o route.Path

\* the Parameter generateOperation builds from a route parameter
OpParameter(param) ==
    [Name |-> param.Name, In |-> param.In, Required |-> param.Required,
     Schema |-> [generateParameterSchema(param) EXCEPT
                    !.Enum = param.Enum, !.Default = param.Default]]

\* generateOperation; RequestBody and each response hold the schema of their
\* single application/json content entry (<<>> when there is no content)
generateOperation(route) ==
    LET bodyName == IF route.RequestBody = <<>> THEN ""
                    ELSE IF \/ Contains(route.RequestBody[1].Name, "Request")
                            \/ Contains(route.RequestBody[1].Name, "Body")
                    THEN route.RequestBody[1].Name
                    ELSE cleanSchemaName(route.RequestBody[1].Name)
        errorContent == <<RefSchema("ErrorResponse")>>
    IN [Tags |-> route.Tags,
        Description |-> generateDescription(route),
        OperationID |-> generateOperationID(route),
        Parameters |-> [i \in 1..Len(route.Parameters) |-> OpParameter(route.Parameters[i])],
        RequestBody |-> IF route.RequestBody = <<>> THEN <<>> ELSE <<RefSchema(bodyName)>>,
        Responses |-> [code \in {"200", "400", "500"} |->
                          IF code = "200"
                          THEN IF route.Response = <<>> THEN <<>>
                               ELSE <<RefSchema(cleanSchemaName(route.Response[1].Name))>>
                          ELSE errorContent],
        Security |-> hasAuthMiddleware(route.Middleware)]

Slots == {"Get", "Post", "Put", "Delete", "Patch"}

\* the PathItem field the switch in Generate assigns for a method ("" for none)
SlotOf(method) ==
    LET m == ToLower(method)
    IN CASE m = "get" -> "Get"
         [] m = "post" -> "Post"
         [] m = "put" -> "Put"
         [] m = "delete" -> "Delete"
         [] m = "patch" -> "Patch"
         [] OTHER -> ""

\* the zero value of PathItem
PathItem0 == [s \in Slots |-> <<>>]

\* a duplicate key built from the raw path instead of the converted one
pathKey_rawPath(route) == route.Method \o ":" \o route.Path

\* the key Generate uses to drop duplicate routes
pathKey(route) == route.Method \o ":" \o convertPathFormat(route.Path)

(***************************************************************************)
(* Reference integrity: canonical names and reference rewriting            *)
(***************************************************************************)
updateReference(ref, oldToNewNames) ==
    IF ref = "" THEN ""
    ELSE IF ~HasPrefix(ref, RefPrefix) THEN ref
    ELSE LET oldName == TrimPrefix(ref, RefPrefix)
         IN IF oldName \in DOMAIN oldToNewNames
            THEN RefPrefix \o oldToNewNames[oldName]
            ELSE RefPrefix \o cleanSchemaName(oldName)

RECURSIVE updateSchemaReferences(_, _)
updateSchemaReferences(schema, oldToNewNames) ==
    [schema EXCEPT
        !.Ref = IF schema.Ref # "" THEN updateReference(schema.Ref, oldToNewNames) ELSE "",
        !.Properties = [p \in DOMAIN schema.Properties |->
                           updateSchemaReferences(schema.Properties[p], oldToNewNames)],
        !.Items = IF schema.Items = <<>> THEN <<>>
                  ELSE <<updateSchemaReferences(schema.Items[1], oldToNewNames)>>,
        !.AdditionalProperties =
            IF schema.AdditionalProperties.kind = "schema"
            THEN SchemaAP(updateSchemaReferences(schema.AdditionalProperties.schema[1],
                                                 oldToNewNames))
            ELSE schema.AdditionalProperties]

updateOperationReferences(operation, oldToNewNames) ==
    [operation EXCEPT
        !.RequestBody = IF operation.RequestBody = <<>> THEN <<>>
                        ELSE <<updateSchemaReferences(operation.RequestBody[1], oldToNewNames)>>,
        !.Responses = [code \in DOMAIN operation.Responses |->
                          IF operation.Responses[code] = <<>> THEN <<>>
                          ELSE <<updateSchemaReferences(operation.Responses[code][1],
                                                        oldToNewNames)>>]]

\* apply f to every operation of a path table
MapOperations(paths, f(_)) ==
    [p \in DOMAIN paths |->
        [s \in Slots |-> IF paths[p][s] = <<>> THEN <<>> ELSE <<f(paths[p][s][1])>>]]

updateAllReferences(doc, oldToNewNames) ==
    LET upd(op) == updateOperationReferences(op, oldToNewNames)
    IN [doc EXCEPT
           !.Paths = MapOperations(doc.Paths, upd),
           !.Schemas = [n \in DOMAIN doc.Schemas |->
                           updateSchemaReferences(doc.Schemas[n], oldToNewNames)]]

\* the old names that clean to the same new name: the entry the map iteration
\* visits last is the one kept
SameCleanName(schemas, c) == {o \in DOMAIN schemas : cleanSchemaName(o) = c}

\* cleanAllSchemaNames; kept[c] is the old name whose schema ends under c,
\* for every c that several old names clean to
cleanAllSchemaNames(doc, kept) ==
    LET cleanNames == {cleanSchemaName(o) : o \in DOMAIN doc.Schemas}
        source(c) == IF c \in DOMAIN kept THEN kept[c]
                     ELSE CHOOSE o \in SameCleanName(doc.Schemas, c) : TRUE
        cleanedSchemas == [c \in cleanNames |-> doc.Schemas[source(c)]]
        oldToNewNames == [o \in DOMAIN doc.Schemas |-> cleanSchemaName(o)]
    IN updateAllReferences([doc EXCEPT !.Schemas = cleanedSchemas], oldToNewNames)

\* the choices kept can take
KeptChoices(schemas) ==
    LET shared == {c \in {cleanSchemaName(o) : o \in DOMAIN schemas} :
                      Cardinality(SameCleanName(schemas, c)) > 1}
    IN {k \in [shared -> DOMAIN schemas] :
           \A c \in shared : k[c] \in SameCleanName(schemas, c)}

(***************************************************************************)
(* Reference integrity: schema validation                                  *)
(***************************************************************************)
\* the last "/"-separated part of a reference
LastPart(ref) == SubSeq(ref, LastIndex(ref, "/") + 1, Len(ref))

\* the existing schema names that match a name case-insensitively
FoldMatches(allSchemas, cleanName) ==
    {e \in DOMAIN allSchemas : EqualFold(e, cleanName)}

\* cleanReference; when the name is no key, the loop over the schema table
\* stops at the first case-insensitive match it meets, which is pick when
\* there are several
cleanReference(ref, allSchemas, pick) ==
    IF ref = "" THEN ""
    ELSE LET cleanName == cleanSchemaName(LastPart(ref))
             matches == FoldMatches(allSchemas, cleanName)
             found == IF cleanName \in DOMAIN allSchemas THEN cleanName
                      ELSE IF matches = {} THEN ""
                      ELSE IF pick \in matches THEN pick
                      ELSE CHOOSE e \in matches : TRUE
         IN IF found = "" THEN "" ELSE RefPrefix \o found

cleanPropertyName(name) == IF name = "" THEN "property" ELSE toSnakeCase(name)

\* the property names that clean to the name c
SameCleanProperty(properties, c) ==
    {p \in DOMAIN properties : cleanPropertyName(p) = c}

\* cleanSchema; win[c] is the property that ends under the cleaned name c when
\* several properties clean to c (the one the map iteration visits last)
RECURSIVE cleanSchema(_, _, _, _)
cleanSchema(schema, allSchemas, pick, win) ==
    LET ref == cleanReference(schema.Ref, allSchemas, pick)
        cleanNames == {cleanPropertyName(p) : p \in DOMAIN schema.Properties}
        source(c) == IF c \in DOMAIN win /\ win[c] \in SameCleanProperty(schema.Properties, c)
                     THEN win[c]
                     ELSE CHOOSE p \in SameCleanProperty(schema.Properties, c) : TRUE
    IN IF schema.Ref # "" /\ ref # ""
       THEN [Schema0 EXCEPT !.Ref = ref]
       ELSE [schema EXCEPT
                !.Ref = "",
                !.Properties = [c \in cleanNames |->
                                   cleanSchema(schema.Properties[source(c)],
                                               allSchemas, pick, <<>>)],
                !.Items = IF schema.Items = <<>> THEN <<>>
                          ELSE <<cleanSchema(schema.Items[1], allSchemas, pick, <<>>)>>,
                !.AdditionalProperties =
                    IF schema.AdditionalProperties.kind = "schema"
                    THEN SchemaAP(cleanSchema(schema.AdditionalProperties.schema[1],
                                              allSchemas, pick, <<>>))
                    ELSE schema.AdditionalProperties]

\* the reference a field schema holds, at any depth ("" when it holds none);
\* generateSchemaFromField puts at most one reference in a field schema
RECURSIVE refOf(_)
refOf(schema) ==
    IF schema.Ref # "" THEN schema.Ref
    ELSE IF schema.Items # <<>> THEN refOf(schema.Items[1])
    ELSE IF schema.AdditionalProperties.kind = "schema"
    THEN refOf(schema.AdditionalProperties.schema[1])
    ELSE ""

\* the outcomes of the case-insensitive search for the reference of a schema
PickChoices(schema, allSchemas) ==
    LET cleanName == cleanSchemaName(LastPart(refOf(schema)))
        matches == FoldMatches(allSchemas, cleanName)
    IN IF refOf(schema) = "" \/ cleanName \in DOMAIN allSchemas \/ matches = {}
       THEN {""} ELSE matches

\* cleanSchema of a component schema: its properties are cleaned one by one,
\* each with its own search outcome
cleanComponent(schema, allSchemas, pickOf(_), win) ==
    LET cleanNames == {cleanPropertyName(p) : p \in DOMAIN schema.Properties}
        source(c) == IF c \in DOMAIN win THEN win[c]
                     ELSE CHOOSE p \in SameCleanProperty(schema.Properties, c) : TRUE
        top == cleanSchema([schema EXCEPT !.Properties = <<>>], allSchemas, "", <<>>)
    IN IF schema.Ref # "" THEN top
       ELSE [top EXCEPT
                !.Properties = [c \in cleanNames |->
                                   cleanSchema(schema.Properties[source(c)], allSchemas,
                                               pickOf(source(c)), <<>>)]]

\* the <<schema, property>> pairs whose reference has several case-insensitive
\* matches and no exact one
SearchSites(schemas) ==
    {np \in UNION {{n} \X DOMAIN schemas[n].Properties : n \in DOMAIN schemas} :
        Cardinality(PickChoices(schemas[np[1]].Properties[np[2]], schemas)) > 1}

\* the outcomes of the searches of validateSchemas
SearchChoices(schemas) ==
    {f \in [SearchSites(schemas) -> DOMAIN schemas] :
        \A np \in DOMAIN f :
            f[np] \in PickChoices(schemas[np[1]].Properties[np[2]], schemas)}

\* the <<schema, cleaned property name>> pairs several properties clean to
RenameSites(schemas) ==
    {nc \in UNION {{n} \X {cleanPropertyName(p) : p \in DOMAIN schemas[n].Properties} :
                      n \in DOMAIN schemas} :
        Cardinality(SameCleanProperty(schemas[nc[1]].Properties, nc[2])) > 1}

\* the outcomes of the property renamings of validateSchemas
RenameChoices(schemas) ==
    {f \in [RenameSites(schemas) ->
               UNION {DOMAIN schemas[n].Properties : n \in DOMAIN schemas}] :
        \A nc \in DOMAIN f :
            f[nc] \in SameCleanProperty(schemas[nc[1]].Properties, nc[2])}

\* validateSchemas: every component schema is cleaned against the table as it
\* is when the pass starts; picks and wins are the outcomes of the map
\* iterations that have several
validateSchemas(doc, picks, wins) ==
    [doc EXCEPT !.Schemas =
        [n \in DOMAIN doc.Schemas |->
            LET pickOf(p) == IF <<n, p>> \in DOMAIN picks THEN picks[<<n, p>>] ELSE ""
                win == [c \in {nc[2] : nc \in {x \in DOMAIN wins : x[1] = n}} |->
                           wins[<<n, c>>]]
            IN cleanComponent(doc.Schemas[n], doc.Schemas, pickOf, win)]]

(***************************************************************************)
(* Reference integrity: path parameters                                    *)
(***************************************************************************)
\* a reconciliation that keeps the expected path parameters and nothing else
validateOperationParameters_pathOnly(operation, tokens, order) ==
    LET expectedParams == Range(tokens)
        IsKeptPath(param) == param.In = "path" /\ param.Name \in expectedParams
        validParams == SelectSeq(operation.Parameters, IsKeptPath)
        found(name) == \E i \in 1..Len(validParams) : validParams[i].Name = name
        injected(name) == [Name |-> name, In |-> "path", Required |-> TRUE,
                           Schema |-> TypeSchema("string", "")]
        add[i \in 0..Len(order)] ==
            IF i = 0 THEN <<>>
            ELSE IF found(order[i]) THEN add[i - 1]
            ELSE Append(add[i - 1], injected(order[i]))
    IN [operation EXCEPT !.Parameters = validParams \o add[Len(order)]]

\* validateOperationParameters; order is the order in which the loop over the
\* expectedParams map visits the token names
validateOperationParameters(operation, tokens, order) ==
    LET expectedParams == Range(tokens)
        keep(param) == param.In # "path" \/ param.Name \in expectedParams
        params == operation.Parameters
        valid[i \in 0..Len(params)] ==
            IF i = 0 THEN <<>>
            ELSE IF keep(params[i]) THEN Append(valid[i - 1], params[i])
            ELSE valid[i - 1]
        validParams == valid[Len(params)]
        found(name) == \E i \in 1..Len(validParams) :
                           validParams[i].In = "path" /\ validParams[i].Name = name
        injected(name) == [Name |-> name, In |-> "path", Required |-> TRUE,
                           Schema |-> TypeSchema("string", "")]
        add[i \in 0..Len(order)] ==
            IF i = 0 THEN <<>>
            ELSE IF found(order[i]) THEN add[i - 1]
            ELSE Append(add[i - 1], injected(order[i]))
    IN [operation EXCEPT !.Parameters = validParams \o add[Len(order)]]

\* the operations of a path table, as <<path, slot>> pairs
OperationsOf(paths) ==
    {ps \in (DOMAIN paths) \X Slots : paths[ps[1]][ps[2]] # <<>>}

\* the operations with more than one path token: the loop over expectedParams
\* has several visiting orders
OrderSites(paths) ==
    {ps \in OperationsOf(paths) : Cardinality(Range(pathParams(ps[1]))) > 1}

\* the visiting orders validatePaths can meet
OrderChoices(paths) ==
    {o \in [OrderSites(paths) ->
               UNION {Orders(Range(pathParams(p))) : p \in DOMAIN paths}] :
        \A ps \in DOMAIN o : Range(o[ps]) = Range(pathParams(ps[1]))}

validatePaths(doc, orders) ==
    [doc EXCEPT !.Paths =
        [p \in DOMAIN doc.Paths |->
            [s \in Slots |->
                IF doc.Paths[p][s] = <<>> THEN <<>>
                ELSE <<validateOperationParameters(
                           doc.Paths[p][s][1], pathParams(p),
                           IF <<p, s>> \in DOMAIN orders THEN orders[<<p, s>>]
                           ELSE CHOOSE o \in Orders(Range(pathParams(p))) : TRUE)>>]]]

(***************************************************************************)
(* Reference integrity: removal of invalid references                      *)
(***************************************************************************)
\* a removal pass that leaves every reference in place
removeInvalidRefsFromSchema_keepRef(schema, validSchemas) == schema

RECURSIVE removeInvalidRefsFromSchema(_, _)
removeInvalidRefsFromSchema(schema, validSchemas) ==
    IF schema.Ref # "" /\ TrimPrefix(schema.Ref, RefPrefix) \notin validSchemas
    THEN TypeSchema("object", "")
    ELSE [schema EXCEPT
             !.Properties = [p \in DOMAIN schema.Properties |->
                                removeInvalidRefsFromSchema(schema.Properties[p], validSchemas)],
             !.Items = IF schema.Items = <<>> THEN <<>>
                       ELSE <<removeInvalidRefsFromSchema(schema.Items[1], validSchemas)>>,
             !.AdditionalProperties =
                 IF schema.AdditionalProperties.kind = "schema"
                 THEN SchemaAP(removeInvalidRefsFromSchema(
                                   schema.AdditionalProperties.schema[1], validSchemas))
                 ELSE schema.AdditionalProperties]

removeInvalidRefsFromOperation(operation, validSchemas) ==
    [operation EXCEPT
        !.RequestBody = IF operation.RequestBody = <<>> THEN <<>>
                        ELSE <<removeInvalidRefsFromSchema(operation.RequestBody[1],
                                                           validSchemas)>>,
        !.Responses = [code \in DOMAIN operation.Responses |->
                          IF operation.Responses[code] = <<>> THEN <<>>
                          ELSE <<removeInvalidRefsFromSchema(operation.Responses[code][1],
                                                             validSchemas)>>]]

removeInvalidReferences(doc) ==
    LET validSchemas == DOMAIN doc.Schemas
        rm(op) == removeInvalidRefsFromOperation(op, validSchemas)
    IN [doc EXCEPT
           !.Schemas = [n \in DOMAIN doc.Schemas |->
                           removeInvalidRefsFromSchema(doc.Schemas[n], validSchemas)],
           !.Paths = MapOperations(doc.Paths, rm)]

(***************************************************************************)
(* Generate: the state of one call, and the inputs it is checked on        *)
(***************************************************************************)
VARIABLES
    analysis,        \* the Analysis passed to Generate: Models (a map) and Routes (a list)
    pc,              \* where Generate is
    spec,            \* the OpenAPISpec under construction: Schemas, Paths, Tags
    todo,            \* keys of analysis.Models the range loop has not visited yet
    processedPaths,  \* the method:path keys already given an operation
    tags,            \* the tag names collected from the routes
    routeIdx,        \* index of the next route of the range over analysis.Routes
    prev,            \* the documents returned by earlier calls on the same Analysis
    last,            \* the declaration or call the analyzer's walk visited last
    visits,          \* how many the walk has visited in the present stage
    handlers,        \* the HandlerInfo table of parseHandlers, by function name
    anonymousModels, \* the anonymous request models parseRoutes has collected
    project,         \* the project tree: whether the sdk and routes directories exist
    returned,        \* what Analyze returned: <<>> while it runs, else <<[analysis, err]>>
    routeGroups      \* the route groups of RegisterRoutes: base path by variable name

genVars == <<analysis, pc, spec, todo, processedPaths, tags, routeIdx, prev>>
anVars == <<last, visits, handlers, anonymousModels, project, returned, routeGroups>>
vars == <<analysis, pc, spec, todo, processedPaths, tags, routeIdx, prev,
          last, visits, handlers, anonymousModels, project, returned, routeGroups>>

\* the analyzer at rest
AnalyzerIdle ==
    /\ last = <<>>
    /\ visits = 0
    /\ handlers = <<>>
    /\ anonymousModels = <<>>
    /\ returned = <<>>
    /\ routeGroups = <<>>

Fld(name, type, tag, required) ==
    [Name |-> name, Type |-> type, JSONTag |-> tag, OriginalType |-> type,
     Required |-> required]

Mdl(name, fields) == [Name |-> name, Fields |-> fields]

Param(name, in, type) ==
    [Name |-> name, In |-> in, Required |-> in = "path", Type |-> type,
     Enum |-> <<>>, Default |-> NilDefault]

MaxModels == 2
MaxRoutes == 2

\* the models the checked Analysis values are built from, by map key
ModelPool ==
    [k \in {"User", "USER", "pkg.User", "Order", "ErrorResponse"} |->
        CASE k = "User" ->
               Mdl("User", <<Fld("ID", "int", "id", TRUE),
                             Fld("Name", "string", "name,omitempty", FALSE)>>)
          [] k = "USER" ->
               Mdl("USER", <<Fld("Peers", "map[string][]UsEr", "peers", TRUE)>>)
          [] k = "pkg.User" ->
               Mdl("pkg.User", <<Fld("Email", "string", "", TRUE),
                                 Fld("OwnerID", "string", "ownerId", TRUE),
                                 Fld("Nick", "string", "nick,omitempty", FALSE),
                                 Fld("Secret", "string", "-", FALSE)>>)
          [] k = "Order" ->
               Mdl("Order", <<Fld("Owner", "*sdk.User", "owner", TRUE),
                              Fld("Lines", "[]Missing", "lines,omitempty", FALSE),
                              Fld("Extra", "map[string]Ghost", "", TRUE)>>)
          [] k = "ErrorResponse" ->
               Mdl("ErrorResponse", <<Fld("Detail", "string", "detail", TRUE)>>)]

Rt(path, method, handler, middleware, requestBody, response, parameters, tag) ==
    [Path |-> path, Method |-> method, Handler |-> handler, Middleware |-> middleware,
     RequestBody |-> requestBody, Response |-> response, Parameters |-> parameters,
     Tags |-> <<tag>>]

\* the routes the checked Analysis values are built from
RoutePool ==
    {Rt("/users/:id/posts/:postId", "GET", "GetPost", <<"RequireAuth">>,
        <<>>, <<Mdl("Ghost", <<>>)>>,
        <<Param("page", "query", "integer")>>, "posts"),
     Rt("/users/:id", "POST", "CreateUser", <<"Logger">>,
        <<Mdl("CreateUserRequest", <<>>)>>, <<Mdl("sdk.UsEr", <<>>)>>,
        <<Param("id", "path", "string"), Param("id", "path", "string"),
          Param("slug", "path", "string"), Param("q", "query", "string")>>, "users"),
     Rt("users/{id}", "POST", "ReplaceUser", <<>>,
        <<Mdl("*User", <<>>)>>, <<Mdl("User", <<>>)>>, <<>>, "admin"),
     Rt("/teams/:id/members/:id", "DELETE", "RemoveMember", <<>>, <<>>, <<>>,
        <<Param("id", "path", "string"), Param("id", "path", "string")>>, "teams"),
     Rt("/ping", "HEAD", "Ping", <<>>, <<>>, <<>>, <<>>, "health")}

ModelTables ==
    {[k \in keys |-> ModelPool[k]] :
        keys \in {ks \in SUBSET DOMAIN ModelPool : Cardinality(ks) <= MaxModels}}

RouteLists == UNION {[1..n -> RoutePool] : n \in 0..MaxRoutes}

\* the document Generate starts from
Spec0 == [Schemas |-> <<>>, Paths |-> <<>>, Tags |-> {}]

\* map assignment m[k] = v
Put(m, k, v) == [x \in DOMAIN m \cup {k} |-> IF x = k THEN v ELSE m[x]]

GenStart ==
    /\ pc = "models"
    /\ spec = Spec0
    /\ todo = DOMAIN analysis.Models
    /\ processedPaths = {}
    /\ tags = {}
    /\ routeIdx = 1

InitGen ==
    /\ analysis \in {[Models |-> m, Routes |-> r] : m \in ModelTables, r \in RouteLists}
    /\ prev = <<>>
    /\ GenStart
    /\ AnalyzerIdle
    /\ project = [sdkDir |-> TRUE, routesDir |-> TRUE]

ErrorResponseSchema ==
    [TypeSchema("object", "") EXCEPT
        !.Properties = [p \in {"error", "code"} |->
                           IF p = "error" THEN TypeSchema("string", "")
                           ELSE TypeSchema("integer", "")]]

StandardResponseSchema ==
    [TypeSchema("object", "") EXCEPT
        !.Properties = [p \in {"success", "message", "data"} |->
                           CASE p = "success" -> TypeSchema("boolean", "")
                             [] p = "message" -> TypeSchema("string", "")
                             [] p = "data" -> [TypeSchema("object", "") EXCEPT
                                                  !.AdditionalProperties = TrueAP]]]

\* one iteration of the loop over analysis.Models (generator.go 43-47)
SchemaFromModel ==
    /\ pc = "models"
    /\ \E k \in todo :
          /\ spec' = [spec EXCEPT !.Schemas =
                         Put(spec.Schemas, cleanSchemaName(analysis.Models[k].Name),
                             generateSchemaFromModel(analysis.Models[k]))]
          /\ todo' = todo \ {k}
    /\ UNCHANGED <<analysis, pc, processedPaths, tags, routeIdx, prev>>
    /\ UNCHANGED anVars

\* a baseline step that adds ErrorResponse only
withBaseline_errorOnly(schemas) ==
    IF "ErrorResponse" \in DOMAIN schemas THEN schemas
    ELSE Put(schemas, "ErrorResponse", ErrorResponseSchema)

\* the two baseline schemas, added when no model gave a schema of that name
withBaseline(schemas) ==
    LET s1 == IF "ErrorResponse" \in DOMAIN schemas THEN schemas
              ELSE Put(schemas, "ErrorResponse", ErrorResponseSchema)
    IN IF "StandardResponse" \in DOMAIN s1 THEN s1
       ELSE Put(s1, "StandardResponse", StandardResponseSchema)

BaselineSchemas ==
    /\ pc = "models"
    /\ todo = {}
    /\ spec' = [spec EXCEPT !.Schemas = withBaseline(spec.Schemas)]
    /\ pc' = "routes"
    /\ UNCHANGED <<analysis, todo, processedPaths, tags, routeIdx, prev>>
    /\ UNCHANGED anVars

\* one iteration of the loop over analysis.Routes for a route whose key was
\* seen before: continue
SkipDuplicateRoute ==
    /\ pc = "routes"
    /\ routeIdx <= Len(analysis.Routes)
    /\ pathKey(analysis.Routes[routeIdx]) \in processedPaths
    /\ routeIdx' = routeIdx + 1
    /\ UNCHANGED <<analysis, pc, spec, todo, processedPaths, tags, prev>>
    /\ UNCHANGED anVars

\* the path table after the operation of a route is stored in its path item
withOperation(paths, route) ==
    LET openAPIPath == convertPathFormat(route.Path)
        pathItem == IF openAPIPath \in DOMAIN paths THEN paths[openAPIPath] ELSE PathItem0
        slot == SlotOf(route.Method)
    IN Put(paths, openAPIPath,
           IF slot = "" THEN pathItem
           ELSE [pathItem EXCEPT ![slot] = <<generateOperation(route)>>])

\* one iteration of the loop over analysis.Routes for a route with a new key
RouteOperation ==
    /\ pc = "routes"
    /\ routeIdx <= Len(analysis.Routes)
    /\ LET route == analysis.Routes[routeIdx]
       IN /\ pathKey(route) \notin processedPaths
          /\ processedPaths' = processedPaths \cup {pathKey(route)}
          /\ tags' = tags \cup Range(route.Tags)
          /\ spec' = [spec EXCEPT !.Paths = withOperation(spec.Paths, route)]
    /\ routeIdx' = routeIdx + 1
    /\ UNCHANGED <<analysis, pc, todo, prev>>
    /\ UNCHANGED anVars

\* the tag list, once the routes are done (its order is the map's: a set here)
GenerateTags ==
    /\ pc = "routes"
    /\ routeIdx > Len(analysis.Routes)
    /\ spec' = [spec EXCEPT !.Tags = tags]
    /\ pc' = "cleanAllSchemaNames"
    /\ UNCHANGED <<analysis, todo, processedPaths, tags, routeIdx, prev>>
    /\ UNCHANGED anVars

\* ValidateAndCleanSpec, first pass
CleanAllSchemaNames ==
    /\ pc = "cleanAllSchemaNames"
    /\ \E kept \in KeptChoices(spec.Schemas) : spec' = cleanAllSchemaNames(spec, kept)
    /\ pc' = "validateSchemas"
    /\ UNCHANGED <<analysis, todo, processedPaths, tags, routeIdx, prev>>
    /\ UNCHANGED anVars

\* ValidateAndCleanSpec, second pass
ValidateSchemas ==
    /\ pc = "validateSchemas"
    /\ \E picks \in SearchChoices(spec.Schemas), wins \in RenameChoices(spec.Schemas) :
          spec' = validateSchemas(spec, picks, wins)
    /\ pc' = "validatePaths"
    /\ UNCHANGED <<analysis, todo, processedPaths, tags, routeIdx, prev>>
    /\ UNCHANGED anVars

\* ValidateAndCleanSpec, third pass
ValidatePaths ==
    /\ pc = "validatePaths"
    /\ \E orders \in OrderChoices(spec.Paths) : spec' = validatePaths(spec, orders)
    /\ pc' = "removeInvalidReferences"
    /\ UNCHANGED <<analysis, todo, processedPaths, tags, routeIdx, prev>>
    /\ UNCHANGED anVars

\* ValidateAndCleanSpec, last pass; Generate returns the document
RemoveInvalidReferences ==
    /\ pc = "removeInvalidReferences"
    /\ spec' = removeInvalidReferences(spec)
    /\ pc' = "done"
    /\ UNCHANGED <<analysis, todo, processedPaths, tags, routeIdx, prev>>
    /\ UNCHANGED anVars

\* Generate is called once more on the same Analysis
GenerateAgain ==
    /\ pc = "done"
    /\ prev = <<>>
    /\ prev' = <<spec>>
    /\ pc' = "models"
    /\ spec' = Spec0
    /\ todo' = DOMAIN analysis.Models
    /\ processedPaths' = {}
    /\ tags' = {}
    /\ routeIdx' = 1
    /\ UNCHANGED analysis
    /\ UNCHANGED anVars

NextGen ==
    \/ SchemaFromModel
    \/ BaselineSchemas
    \/ SkipDuplicateRoute
    \/ RouteOperation
    \/ GenerateTags
    \/ CleanAllSchemaNames
    \/ ValidateSchemas
    \/ ValidatePaths
    \/ RemoveInvalidReferences
    \/ GenerateAgain

SpecGen == InitGen /\ [][NextGen]_vars

(***************************************************************************)
(* Properties of Generate                                                  *)
(***************************************************************************)
\* every $ref of a schema, at any depth
RECURSIVE RefsOf(_)
RefsOf(schema) ==
    (IF schema.Ref # "" THEN {schema.Ref} ELSE {})
    \cup UNION {RefsOf(schema.Properties[p]) : p \in DOMAIN schema.Properties}
    \cup (IF schema.Items # <<>> THEN RefsOf(schema.Items[1]) ELSE {})
    \cup (IF schema.AdditionalProperties.kind = "schema"
          THEN RefsOf(schema.AdditionalProperties.schema[1]) ELSE {})

\* the content schemas of an operation: request body and responses
ContentSchemas(operation) ==
    Range(operation.RequestBody)
    \cup UNION {Range(operation.Responses[code]) : code \in DOMAIN operation.Responses}

\* the operations of a document
Operations(doc) == {doc.Paths[ps[1]][ps[2]][1] : ps \in OperationsOf(doc.Paths)}

\* every $ref of a document
AllRefs(doc) ==
    UNION {RefsOf(doc.Schemas[n]) : n \in DOMAIN doc.Schemas}
    \cup UNION {UNION {RefsOf(c) : c \in ContentSchemas(op)} : op \in Operations(doc)}

\* the field types of the models, and the route models, that name no model
UnresolvableField(a) ==
    \E k \in DOMAIN a.Models : \E i \in 1..Len(a.Models[k].Fields) :
        LET r == refOf(generateSchemaFromField(a.Models[k].Fields[i]))
        IN r # "" /\ \A m \in DOMAIN a.Models :
                        ~EqualFold(cleanSchemaName(a.Models[m].Name), LastPart(r))

UnresolvableRouteModel(a) ==
    \E i \in 1..Len(a.Routes) :
        /\ SlotOf(a.Routes[i].Method) # ""
        /\ a.Routes[i].Response # <<>>
        /\ \A m \in DOMAIN a.Models :
               cleanSchemaName(a.Models[m].Name) # cleanSchemaName(a.Routes[i].Response[1].Name)

\* C1: after Generate returns, every $ref of the document - in the component
\* schemas at any depth and in the request and response content of every
\* operation - is #/components/schemas/N for a key N of the schema table,
\* whatever the Analysis names
C1_NoDanglingReference ==
    pc = "done" =>
        \A r \in AllRefs(spec) :
            /\ HasPrefix(r, RefPrefix)
            /\ TrimPrefix(r, RefPrefix) \in DOMAIN spec.Schemas

\* C1 witness: Generate has returned for an Analysis whose fields and routes
\* name types without a model, and the document still holds references
C1_Witness ==
    /\ pc = "done"
    /\ UnresolvableField(analysis)
    /\ UnresolvableRouteModel(analysis)
    /\ AllRefs(spec) # {}

\* a reference that a pass dropped left a schema of type object, at any depth
\* of the node
RECURSIVE DroppedAsObject(_, _)
DroppedAsObject(before, after) ==
    /\ before.Ref # "" /\ after.Ref = "" => after.Type = "object"
    /\ before.Items # <<>> /\ after.Items # <<>> =>
           DroppedAsObject(before.Items[1], after.Items[1])
    /\ before.AdditionalProperties.kind = "schema"
           /\ after.AdditionalProperties.kind = "schema" =>
           DroppedAsObject(before.AdditionalProperties.schema[1],
                           after.AdditionalProperties.schema[1])

\* the same for the content of the operations of two path tables
ContentDroppedAsObject(pathsBefore, pathsAfter) ==
    \A ps \in OperationsOf(pathsBefore) :
        LET b == pathsBefore[ps[1]][ps[2]][1]
            a == pathsAfter[ps[1]][ps[2]][1]
        IN /\ b.RequestBody # <<>> => DroppedAsObject(b.RequestBody[1], a.RequestBody[1])
           /\ \A code \in DOMAIN b.Responses :
                  b.Responses[code] # <<>> =>
                      DroppedAsObject(b.Responses[code][1], a.Responses[code][1])

\* a step of an integrity pass under which every dropped reference left an
\* object schema
C2_DropStep ==
    pc \in {"validateSchemas", "removeInvalidReferences"} =>
        /\ \A n \in DOMAIN spec.Schemas : \A p \in DOMAIN spec.Schemas[n].Properties :
               LET key == IF pc = "validateSchemas" THEN cleanPropertyName(p) ELSE p
               IN DroppedAsObject(spec.Schemas[n].Properties[p],
                                  spec'.Schemas[n].Properties[key])
        /\ ContentDroppedAsObject(spec.Paths, spec'.Paths)

\* C2: whenever an integrity pass (validateSchemas, removeInvalidReferences)
\* drops a reference, the node that held it becomes a schema of type object,
\* in a component schema's properties as well as in operation content
C2_DroppedReferenceIsObject == [][C2_DropStep]_genVars

\* the names of the path-located parameters of an operation, in order
PathParamNames(operation) ==
    LET ps == operation.Parameters
        f[i \in 0..Len(ps)] ==
            IF i = 0 THEN <<>>
            ELSE IF ps[i].In = "path" THEN Append(f[i - 1], ps[i].Name) ELSE f[i - 1]
    IN f[Len(ps)]

\* a sequence that lists the elements of the set S once each
ListsOnce(seq, S) == Range(seq) = S /\ Len(seq) = Cardinality(S)

\* C3: after the reconciliation pass the path-located parameters of every
\* operation under a path are exactly the {name} tokens of the path, one
\* parameter per token, whatever the route declared
C3_PathParametersAreTokens ==
    pc \in {"removeInvalidReferences", "done"} =>
        \A ps \in OperationsOf(spec.Paths) :
            ListsOnce(PathParamNames(spec.Paths[ps[1]][ps[2]][1]),
                      Range(pathParams(ps[1])))

\* two routes with the same (method, normalized path)
SameRouteKey(r1, r2) ==
    r1.Method = r2.Method /\ convertPathFormat(r1.Path) = convertPathFormat(r2.Path)

\* the first route of the list with the key of route i
FirstWithKey(routes, i) ==
    CHOOSE j \in 1..i : /\ SameRouteKey(routes[j], routes[i])
                        /\ \A k \in 1..(j - 1) : ~SameRouteKey(routes[k], routes[i])

\* the routes the loop of Generate has been through
RoutesDone == IF pc = "models" THEN 0
              ELSE IF pc = "routes" THEN routeIdx - 1
              ELSE Len(analysis.Routes)

\* C4, state part: the operation stored for a route's (method, path) is the one
\* generated from the first route of the list with that key
C4_FirstRouteKept ==
    \A i \in 1..RoutesDone :
        LET route == analysis.Routes[i]
            first == analysis.Routes[FirstWithKey(analysis.Routes, i)]
            path == convertPathFormat(route.Path)
        IN SlotOf(route.Method) # "" =>
              /\ path \in DOMAIN spec.Paths
              /\ spec.Paths[path][SlotOf(route.Method)] # <<>>
              /\ LET op == spec.Paths[path][SlotOf(route.Method)][1]
                 IN /\ op.Description = generateDescription(first)
                    /\ op.Tags = first.Tags
                    /\ pc \in {"routes", "cleanAllSchemaNames"} =>
                           op = generateOperation(first)

\* C4, step part: a route whose key an earlier route of the list has leaves the
\* document and the collected tags unchanged
C4_DuplicateChangesNothing ==
    /\ pc = "routes"
    /\ routeIdx <= Len(analysis.Routes)
    /\ FirstWithKey(analysis.Routes, routeIdx) < routeIdx
    => spec' = spec /\ tags' = tags

\* C4: at most one operation per (method, normalized path), the one of the
\* first route with that key; later routes with the key change nothing
C4_FirstRouteWins == []C4_FirstRouteKept /\ [][C4_DuplicateChangesNothing]_genVars

\* C4 witness: Generate has returned for a list in which a later route repeats
\* the key of an earlier one under a different raw path and handler
C4_Witness ==
    /\ pc = "done"
    /\ \E i \in 1..Len(analysis.Routes) :
          LET j == FirstWithKey(analysis.Routes, i)
          IN /\ j < i
             /\ SlotOf(analysis.Routes[i].Method) # ""
             /\ analysis.Routes[j].Handler # analysis.Routes[i].Handler
             /\ analysis.Routes[j].Path # analysis.Routes[i].Path

\* C7: a second Generate on the same Analysis returns a document equal to the
\* first (maps as functions and the tag list as a set, so order is ignored)
C7_SecondRunSameDocument ==
    pc = "done" /\ prev # <<>> => spec = prev[1]

\* C10: from the baseline step on, and in the document Generate returns, the
\* schema table has the keys ErrorResponse and StandardResponse
C10_BaselineSchemasPresent ==
    pc \notin {"models"} =>
        {"ErrorResponse", "StandardResponse"} \subseteq DOMAIN spec.Schemas

\* C10 witness: Generate has returned for an Analysis that has its own
\* ErrorResponse model; the model's schema is under the key, and the baseline
\* StandardResponse beside it
C10_Witness ==
    /\ pc = "done"
    /\ "ErrorResponse" \in DOMAIN analysis.Models
    /\ "detail" \in DOMAIN spec.Schemas["ErrorResponse"].Properties
    /\ "success" \in DOMAIN spec.Schemas["StandardResponse"].Properties

(***************************************************************************)
(* Analyzer: syntax trees                                                  *)
(*                                                                         *)
(* An expression node is a record: kind is the go/ast node type, name the  *)
(* identifier or selector name, sub the child expressions and fields the   *)
(* field list of a struct type.  A struct field has its Names (none for an *)
(* embedded field), its Type and its Tag (<<>> for no tag, else the tag    *)
(* text between the back quotes).                                          *)
(***************************************************************************)
Ident(name) == [kind |-> "Ident", name |-> name, sub |-> <<>>, fields |-> <<>>]
SelectorExpr(x, sel) == [kind |-> "SelectorExpr", name |-> sel, sub |-> <<x>>, fields |-> <<>>]
StarExpr(x) == [kind |-> "StarExpr", name |-> "", sub |-> <<x>>, fields |-> <<>>]
ArrayType(elt) == [kind |-> "ArrayType", name |-> "", sub |-> <<elt>>, fields |-> <<>>]
MapType(key, value) == [kind |-> "MapType", name |-> "", sub |-> <<key, value>>, fields |-> <<>>]
InterfaceType == [kind |-> "InterfaceType", name |-> "", sub |-> <<>>, fields |-> <<>>]
FuncType == [kind |-> "FuncType", name |-> "", sub |-> <<>>, fields |-> <<>>]
StructType(fields) == [kind |-> "StructType", name |-> "", sub |-> <<>>, fields |-> fields]

AstField(names, type, tag) == [Names |-> names, Type |-> type, Tag |-> tag]

\* ast.Ident.IsExported: the name starts with an upper-case letter
IsExported(name) == Len(name) > 0 /\ IsUpper(Char(name, 1))

RECURSIVE getTypeStringWithArrays(_)
getTypeStringWithArrays(expr) ==
    CASE expr.kind = "Ident" -> expr.name
      [] expr.kind = "SelectorExpr" ->
           LET pkg == getTypeStringWithArrays(expr.sub[1])
           IN IF pkg = "time" /\ expr.name = "Time" THEN "time.Time"
              ELSE IF pkg = "sdk" THEN expr.name
              ELSE pkg \o "." \o expr.name
      [] expr.kind = "StarExpr" -> "*" \o getTypeStringWithArrays(expr.sub[1])
      [] expr.kind = "ArrayType" -> "[]" \o getTypeStringWithArrays(expr.sub[1])
      [] expr.kind = "MapType" ->
           "map[" \o getTypeStringWithArrays(expr.sub[1]) \o "]"
                  \o getTypeStringWithArrays(expr.sub[2])
      [] OTHER -> "interface{}"

\* the sdk package name the analyzer was built with
sdkPackage == "sdk"

RECURSIVE extractTypeFromExpr(_)
extractTypeFromExpr(expr) ==
    CASE expr.kind = "SelectorExpr" ->
           IF expr.sub[1].kind = "Ident"
           THEN IF expr.sub[1].name = "sdk" \/ expr.sub[1].name = sdkPackage
                THEN expr.name
                ELSE expr.sub[1].name \o "." \o expr.name
           ELSE extractTypeFromExpr(expr.sub[1]) \o "." \o expr.name
      [] expr.kind = "Ident" -> expr.name
      [] expr.kind = "ArrayType" -> "[]" \o extractTypeFromExpr(expr.sub[1])
      [] expr.kind = "StarExpr" -> "*" \o extractTypeFromExpr(expr.sub[1])
      [] expr.kind = "MapType" ->
           "map[" \o extractTypeFromExpr(expr.sub[1]) \o "]"
                  \o extractTypeFromExpr(expr.sub[2])
      [] expr.kind = "InterfaceType" -> "interface{}"
      [] OTHER -> ""

\* the first submatch of json:"([^"]*)" in the tag, "" without a match
extractJSONTag(tag) ==
    LET i == Index(tag, "json:\"")
        rest == SubSeq(tag, i + 6, Len(tag))
        j == Index(rest, "\"")
    IN IF i = 0 \/ j = 0 THEN "" ELSE SubSeq(rest, 1, j - 1)

\* the analyzer's cleanTypeName: no asterisks, the part after the last dot
Analyzer_cleanTypeName(typeName) ==
    LET cleaned == RemoveChar(typeName, "*")
        idx == LastIndex(cleaned, ".")
    IN IF idx # 0 THEN SubSeq(cleaned, idx + 1, Len(cleaned)) ELSE cleaned

Model(name, fields) == [Name |-> name, Fields |-> fields]

\* the Field values parseStruct appends for one field of the struct type
parseStructField(field) ==
    LET fieldType == getTypeStringWithArrays(field.Type)
        jsonTag == IF field.Tag = <<>> THEN "" ELSE extractJSONTag(field.Tag[1])
        named[i \in 0..Len(field.Names)] ==
            IF i = 0 THEN <<>>
            ELSE IF ~IsExported(field.Names[i]) THEN named[i - 1]
            ELSE Append(named[i - 1],
                        [Name |-> field.Names[i], Type |-> fieldType,
                         JSONTag |-> jsonTag, OriginalType |-> fieldType,
                         Required |-> IF field.Tag = <<>> THEN TRUE
                                      ELSE jsonTag # "" /\ ~Contains(jsonTag, "omitempty")])
    IN IF Len(field.Names) = 0
       THEN <<[Name |-> fieldType, Type |-> fieldType, JSONTag |-> jsonTag,
               OriginalType |-> fieldType,
               Required |-> jsonTag # "" /\ ~Contains(jsonTag, "omitempty")]>>
       ELSE named[Len(field.Names)]

parseStruct(name, structType) ==
    LET fs == structType.fields
        all[i \in 0..Len(fs)] ==
            IF i = 0 THEN <<>> ELSE all[i - 1] \o parseStructField(fs[i])
    IN Model(name, all[Len(fs)])

\* hasField: some field's first name is one of the names, ignoring case
hasField(structType, names) ==
    \E i \in 1..Len(structType.fields) :
        /\ Len(structType.fields[i].Names) > 0
        /\ \E n \in names : ToLower(structType.fields[i].Names[1]) = ToLower(n)

inferStructNameFromFields(structType) ==
    LET fs == structType.fields
        nameAt(i) ==
            LET fieldName == IF Len(fs[i].Names) > 0 THEN ToLower(fs[i].Names[1]) ELSE ""
            IN CASE Len(fs[i].Names) = 0 -> ""
                 [] fieldName = "services" -> "ServicesRequest"
                 [] fieldName \in {"tenantid", "tenant_id"} ->
                      IF hasField(structType, {"userid", "user_id"})
                      THEN "ConversationRequest" ELSE "TenantRequest"
                 [] fieldName \in {"filename", "file_name"} -> "FileRequest"
                 [] fieldName \in {"fileid", "file_id", "fileids", "file_ids"} -> "FileRequest"
                 [] OTHER -> ""
        hits == {i \in 1..Len(fs) : nameAt(i) # ""}
    IN IF hits = {} THEN "Request"
       ELSE nameAt(CHOOSE i \in hits : \A j \in hits : i <= j)

\* the name parseAnonymousStructWithContext gives the struct of a handler
anonymousStructName(structType, handlerName) ==
    CASE handlerName = "SyncModels" -> "SyncModelsRequest"
      [] handlerName = "StartConversation" -> "StartConversationRequest"
      [] handlerName = "StartTestConversation" -> "TestConversationRequest"
      [] handlerName = "CreateDocument" -> "CreateDocumentRequest"
      [] handlerName = "UploadExcel" -> "ExcelUploadRequest"
      [] OTHER ->
           IF HasPrefix(handlerName, "Create")
           THEN TrimPrefix(handlerName, "Create") \o "Request"
           ELSE IF HasPrefix(handlerName, "Update")
           THEN TrimPrefix(handlerName, "Update") \o "Request"
           ELSE IF HasPrefix(handlerName, "Start")
           THEN handlerName \o "Request"
           ELSE inferStructNameFromFields(structType)

\* the Field values parseAnonymousStructWithContext appends for one field
anonymousStructField(field) ==
    LET jsonTag == IF field.Tag = <<>> THEN "" ELSE extractJSONTag(field.Tag[1])
    IN [i \in 1..Len(field.Names) |->
           [Name |-> field.Names[i], Type |-> getTypeStringWithArrays(field.Type),
            JSONTag |-> jsonTag, OriginalType |-> "",
            Required |-> jsonTag # "" /\ ~Contains(jsonTag, "omitempty")]]

parseAnonymousStructWithContext(structType, handlerName) ==
    LET fs == structType.fields
        all[i \in 0..Len(fs)] ==
            IF i = 0 THEN <<>> ELSE all[i - 1] \o anonymousStructField(fs[i])
    IN Model(anonymousStructName(structType, handlerName), all[Len(fs)])

(***************************************************************************)
(* Analyzer: handler functions                                             *)
(*                                                                         *)
(* A function declaration has its Name, the types of its parameter list    *)
(* and its Body, the statements in source order.  A statement has a kind:  *)
(*   VarDecl      var <var> <expr>                                         *)
(*   AssignLit    <var> := <expr>{}   (amp: <var> := &<expr>{})             *)
(*   AssignNew    <var> := new(<expr>)                                     *)
(*   AssignQuery  <var> := c.Query(<args>)                                 *)
(*   Query        c.Query(<args>) in an expression                         *)
(*   TypedQuery   c.<fn>(<args>), fn one of QueryInt, QueryBool, QueryFloat *)
(*   BodyParser   c.BodyParser(<var>)  (amp: c.BodyParser(&<var>))          *)
(*   Strconv      strconv.<fn>(<var>)                                      *)
(*   Convert      <fn>(<var>)                                              *)
(*   IfEq         if <var> == <args[1]> { }                                *)
(*   Switch       switch <var> { case <args[1]>: case <args[2]>: ... }     *)
(*   AssignCall   <var>, err := <expr>(...), expr the function of the call *)
(*   JSON         c.JSON(<argument>); fn is the node type of the argument: *)
(*                Ident (the variable <var>), CompositeLit (<expr>{...}),  *)
(*                SelectorExpr (<expr>); amp: the argument is &<...>       *)
(*   Helper       <fn>(...) in an expression                               *)
(*   QueryParser  c.QueryParser(<var>), amp: c.QueryParser(&<var>)         *)
(* An argument is the source text of the expression: a basic literal keeps *)
(* its quotes.                                                             *)
(***************************************************************************)
Stmt(kind, var, expr, fn, args, amp) ==
    [kind |-> kind, var |-> var, expr |-> expr, fn |-> fn, args |-> args, amp |-> amp]

FuncDecl(name, params, body) == [Name |-> name, Params |-> params, Body |-> body]

\* the argument is an *ast.BasicLit: a string or a number literal
IsBasicLit(arg) == Len(arg) > 0 /\ (Char(arg, 1) = "\"" \/ IsDigit(Char(arg, 1)))

\* strings.Trim(s, `"`)
RECURSIVE TrimQuotes(_)
TrimQuotes(s) ==
    IF Len(s) > 0 /\ Char(s, 1) = "\"" THEN TrimQuotes(SubSeq(s, 2, Len(s)))
    ELSE IF Len(s) > 0 /\ Char(s, Len(s)) = "\"" THEN TrimQuotes(SubSeq(s, 1, Len(s) - 1))
    ELSE s

isFiberHandler(funcDecl) ==
    /\ Len(funcDecl.Params) = 1
    /\ funcDecl.Params[1].kind = "StarExpr"
    /\ funcDecl.Params[1].sub[1].kind = "SelectorExpr"
    /\ funcDecl.Params[1].sub[1].name = "Ctx"

integerPatterns ==
    <<"page", "limit", "offset", "count", "size", "num", "total", "min", "max",
      "id", "index", "position", "quantity", "amount", "skip", "take", "from", "to">>

booleanPatterns ==
    <<"enabled", "disabled", "active", "inactive", "is_", "has_", "show", "hide",
      "include", "exclude", "flag", "toggle", "visible", "hidden", "public",
      "private", "deleted">>

numberPatterns ==
    <<"price", "cost", "rate", "ratio", "percentage", "weight", "height", "width",
      "latitude", "longitude", "score", "amount", "value", "temperature", "distance">>

\* a dictionary that looks at the number patterns before the integer patterns
inferTypeFromParamName_numberFirst(paramName) ==
    LET lowerName == ToLower(paramName)
    IN IF \E i \in 1..Len(numberPatterns) : Contains(lowerName, numberPatterns[i])
       THEN "number"
       ELSE IF \E i \in 1..Len(integerPatterns) : Contains(lowerName, integerPatterns[i])
       THEN "integer"
       ELSE IF \E i \in 1..Len(booleanPatterns) :
                  \/ Contains(lowerName, booleanPatterns[i])
                  \/ HasPrefix(lowerName, "is_")
                  \/ HasPrefix(lowerName, "has_")
                  \/ HasPrefix(lowerName, "should_")
       THEN "boolean"
       ELSE "string"

inferTypeFromParamName(paramName) ==
    LET lowerName == ToLower(paramName)
    IN IF \E i \in 1..Len(integerPatterns) :
              Contains(lowerName, integerPatterns[i]) \/ lowerName = integerPatterns[i]
       THEN "integer"
       ELSE IF \E i \in 1..Len(booleanPatterns) :
                  \/ Contains(lowerName, booleanPatterns[i])
                  \/ HasPrefix(lowerName, "is_")
                  \/ HasPrefix(lowerName, "has_")
                  \/ HasPrefix(lowerName, "should_")
       THEN "boolean"
       ELSE IF \E i \in 1..Len(numberPatterns) : Contains(lowerName, numberPatterns[i])
       THEN "number"
       ELSE "string"

\* the type a statement gives the query variable, "" when it gives none
usageType(stmt, queryVarName) ==
    IF stmt.var # queryVarName THEN ""
    ELSE IF stmt.kind = "Strconv"
    THEN CASE stmt.fn \in {"Atoi", "ParseInt"} -> "integer"
           [] stmt.fn = "ParseFloat" -> "number"
           [] stmt.fn = "ParseBool" -> "boolean"
           [] OTHER -> ""
    ELSE IF stmt.kind = "Convert"
    THEN CASE stmt.fn \in {"int", "int64", "int32"} -> "integer"
           [] stmt.fn \in {"float64", "float32"} -> "number"
           [] stmt.fn = "bool" -> "boolean"
           [] OTHER -> ""
    ELSE ""

\* inferQueryParamType; queryVarName is the variable the range over
\* queryParamAssignments stopped at ("" when no variable holds the parameter).
\* Every matching call of the body assigns inferredType, so the last one stays.
inferQueryParamType(body, paramName, queryVarName) ==
    LET inferred[i \in 0..Len(body)] ==
            IF i = 0 THEN "string"
            ELSE IF usageType(body[i], queryVarName) # ""
            THEN usageType(body[i], queryVarName)
            ELSE inferred[i - 1]
    IN IF queryVarName = "" THEN inferTypeFromParamName(paramName)
       ELSE IF inferred[Len(body)] = "string" THEN inferTypeFromParamName(paramName)
       ELSE inferred[Len(body)]

StringDefault(v) == [kind |-> "string", s |-> v, n |-> 0]

\* extractQueryParameter: <<>> for nil
extractQueryParameter(args) ==
    IF Len(args) < 1 \/ ~IsBasicLit(args[1]) THEN <<>>
    ELSE LET paramName == TrimQuotes(args[1])
             defaultValue == IF Len(args) > 1 /\ IsBasicLit(args[2])
                             THEN TrimQuotes(args[2]) ELSE ""
         IN <<[Name |-> paramName, Type |-> "string", Required |-> FALSE,
               Default |-> IF defaultValue # "" THEN StringDefault(defaultValue)
                           ELSE NilDefault,
               Enum |-> IF paramName = "sort_order" THEN <<"asc", "desc">> ELSE <<>>]>>

\* the first pass of analyzeHandlerFunction: the variable maps
variableTypes(body) ==
    LET m[i \in 0..Len(body)] ==
            IF i = 0 THEN <<>>
            ELSE LET st == body[i]
                     typeName == IF st.expr = <<>> THEN "" ELSE extractTypeFromExpr(st.expr[1])
                 IN IF /\ st.kind \in {"VarDecl", "AssignLit", "AssignNew"}
                       /\ st.expr # <<>>
                       /\ st.expr[1].kind # "StructType"
                       /\ typeName # ""
                    THEN Put(m[i - 1], st.var, typeName)
                    ELSE m[i - 1]
    IN m[Len(body)]

anonymousStructs(body) ==
    LET m[i \in 0..Len(body)] ==
            IF i = 0 THEN <<>>
            ELSE LET st == body[i]
                 IN IF /\ st.kind \in {"VarDecl", "AssignLit"}
                       /\ st.expr # <<>>
                       /\ st.expr[1].kind = "StructType"
                    THEN Put(m[i - 1], st.var, st.expr[1])
                    ELSE m[i - 1]
    IN m[Len(body)]

queryParamAssignments(body) ==
    LET m[i \in 0..Len(body)] ==
            IF i = 0 THEN <<>>
            ELSE LET st == body[i]
                 IN IF /\ st.kind = "AssignQuery"
                       /\ Len(st.args) > 0
                       /\ IsBasicLit(st.args[1])
                    THEN Put(m[i - 1], st.var, TrimQuotes(st.args[1]))
                    ELSE m[i - 1]
    IN m[Len(body)]

HandlerInfo0(name) ==
    [Name |-> name, RequestType |-> "", ResponseType |-> "",
     AnonymousRequestModel |-> <<>>, QueryParameters |-> <<>>]

handleBodyParserCall(st, body, handlerInfo) ==
    LET varName == st.var
        anon == anonymousStructs(body)
        types == variableTypes(body)
    IN IF varName = "" THEN handlerInfo
       ELSE IF varName \in DOMAIN anon
       THEN LET model == parseAnonymousStructWithContext(anon[varName], handlerInfo.Name)
            IN [handlerInfo EXCEPT
                   !.RequestType = model.Name,
                   !.AnonymousRequestModel =
                       IF handlerInfo.AnonymousRequestModel = <<>> THEN <<model>>
                       ELSE handlerInfo.AnonymousRequestModel]
       ELSE IF varName \in DOMAIN types
       THEN [handlerInfo EXCEPT !.RequestType = Analyzer_cleanTypeName(types[varName])]
       ELSE handlerInfo

\* the variables that hold a parameter in queryParamAssignments
QueryVars(body, paramName) ==
    {v \in DOMAIN queryParamAssignments(body) : queryParamAssignments(body)[v] = paramName}

handleQueryCall(st, body, handlerInfo, pick) ==
    LET q == extractQueryParameter(st.args)
    IN IF q = <<>> THEN handlerInfo
       ELSE LET queryVarName == IF QueryVars(body, q[1].Name) = {} THEN ""
                                ELSE pick[q[1].Name]
                inferredType == inferQueryParamType(body, q[1].Name, queryVarName)
                typed == IF inferredType # "" /\ inferredType # "string"
                         THEN [q[1] EXCEPT !.Type = inferredType] ELSE q[1]
            IN [handlerInfo EXCEPT !.QueryParameters = Append(@, typed)]

handleTypedQueryCalls(st, handlerInfo) ==
    LET q == extractQueryParameter(st.args)
        type == CASE st.fn = "QueryInt" -> "integer"
                  [] st.fn = "QueryBool" -> "boolean"
                  [] st.fn = "QueryFloat" -> "number"
                  [] OTHER -> ""
    IN IF q = <<>> \/ type = "" THEN handlerInfo
       ELSE [handlerInfo EXCEPT !.QueryParameters = Append(@, [q[1] EXCEPT !.Type = type])]

\* the analyzer's toSnakeCase: a name in lower case with an underscore is kept;
\* else an underscore goes before every upper case letter but the first
\* character, and the result is lowered
Analyzer_toSnakeCase(str) ==
    LET f[i \in 0..Len(str)] ==
            IF i = 0 THEN ""
            ELSE f[i - 1]
                 \o (IF i > 1 /\ IsUpper(Char(str, i)) THEN "_" ELSE "")
                 \o Char(str, i)
    IN IF Contains(str, "_") /\ ToLower(str) = str THEN str
       ELSE ToLower(f[Len(str)])

mapFieldTypeToParamType(fieldType) ==
    LET cleanType == TrimPrefix(fieldType, "*")
    IN IF HasPrefix(cleanType, "[]") THEN "array"
       ELSE CASE cleanType \in {"int", "int32", "int64", "uint", "uint32", "uint64"} -> "integer"
              [] cleanType \in {"float32", "float64"} -> "number"
              [] cleanType = "bool" -> "boolean"
              [] OTHER -> "string"

IntDefault(n) == [kind |-> "int", s |-> "", n |-> n]

\* the fallback parameters of extractQueryParametersFromType for a
\* conversation filter that is no model
ConversationFilterParameters ==
    LET names == <<"platform_id", "platform", "tenant_id", "user_id", "session_id",
                   "created_on", "linked_workflow", "name", "skip", "limit">>
    IN [i \in 1..Len(names) |->
           [Name |-> names[i],
            Type |-> IF names[i] \in {"skip", "limit"} THEN "integer" ELSE "string",
            Required |-> FALSE,
            Default |-> CASE names[i] = "skip" -> IntDefault(0)
                          [] names[i] = "limit" -> IntDefault(100)
                          [] OTHER -> NilDefault,
            Enum |-> <<>>]]

extractQueryParametersFromType(typeName, models) ==
    LET cleanType == Analyzer_cleanTypeName(typeName)
        param(field) ==
            LET paramName == IF field.JSONTag # "" /\ field.JSONTag # "-"
                             THEN (IF FirstPart(field.JSONTag) # ""
                                   THEN FirstPart(field.JSONTag) ELSE field.Name)
                             ELSE Analyzer_toSnakeCase(field.Name)
            IN [Name |-> paramName,
                Type |-> mapFieldTypeToParamType(field.Type),
                Required |-> FALSE,
                Default |-> CASE paramName \in {"skip", "offset"} -> IntDefault(0)
                              [] paramName = "limit" -> IntDefault(100)
                              [] OTHER -> NilDefault,
                Enum |-> IF paramName = "sort_order" THEN <<"asc", "desc">> ELSE <<>>]
    IN IF cleanType \in DOMAIN models
       THEN [i \in 1..Len(models[cleanType].Fields) |-> param(models[cleanType].Fields[i])]
       ELSE IF cleanType \in {"ConversationFilter", "ConversationFilterRequest"}
       THEN ConversationFilterParameters
       ELSE <<>>

\* handleQueryParserCall: the type of the variable comes from variableTypes
\* (queryParserVars holds the new(T) entries of variableTypes again)
handleQueryParserCall(st, body, handlerInfo, models) ==
    LET types == variableTypes(body)
        varType == IF st.var \in DOMAIN types THEN types[st.var] ELSE ""
    IN IF st.var = "" \/ varType = "" THEN handlerInfo
       ELSE [handlerInfo EXCEPT
                !.QueryParameters = @ \o extractQueryParametersFromType(varType, models)]

\* isResponseType: the cleaned type name looks like a response
isResponseType(typeName) ==
    LET cleanType == Analyzer_cleanTypeName(typeName)
    IN \/ Contains(cleanType, "Response")
       \/ Contains(cleanType, "Result")
       \/ Contains(cleanType, "Reply")
       \/ HasSuffix(cleanType, "Data")
       \/ HasSuffix(cleanType, "Output")

\* isServiceMethodCall: the receiver chain of the selector starts at a service
\* object
RECURSIVE isServiceMethodCall(_)
isServiceMethodCall(selExpr) ==
    IF selExpr.sub[1].kind # "SelectorExpr" THEN FALSE
    ELSE LET x == selExpr.sub[1]
         IN IF x.sub[1].kind = "Ident"
            THEN \/ x.sub[1].name \in {"pr", "providers", "svc", "service", "s"}
                 \/ HasSuffix(x.sub[1].name, "Service")
            ELSE isServiceMethodCall(x)

\* the prefix mappings of inferResponseTypeFromMethodName: the prefix, and the
\* text the format puts before and after the entity name
prefixMappings ==
    <<<<"Get", "", "Response">>, <<"Fetch", "", "Response">>,
      <<"List", "", "ListResponse">>, <<"Search", "Search", "Response">>,
      <<"Find", "", "Response">>, <<"Create", "", "Response">>,
      <<"Update", "", "Response">>, <<"Delete", "", "Response">>,
      <<"Save", "", "Response">>, <<"Parse", "", "Response">>,
      <<"Process", "", "Response">>, <<"Generate", "", "Response">>,
      <<"Calculate", "", "Response">>, <<"Validate", "", "ValidationResponse">>,
      <<"Check", "", "CheckResponse">>>>

inferResponseTypeFromMethodName(methodName) ==
    LET hits == {i \in 1..Len(prefixMappings) :
                    /\ HasPrefix(methodName, prefixMappings[i][1])
                    /\ TrimPrefix(methodName, prefixMappings[i][1]) # ""}
        first == CHOOSE i \in hits : \A j \in hits : i <= j
    IN IF hits = {} THEN methodName \o "Response"
       ELSE prefixMappings[first][2]
            \o TrimPrefix(methodName, prefixMappings[first][1])
            \o prefixMappings[first][3]

\* extractServiceCallResponseType, of the function of a call
extractServiceCallResponseType(fun) ==
    IF fun.kind = "SelectorExpr" /\ isServiceMethodCall(fun)
    THEN inferResponseTypeFromMethodName(fun.name)
    ELSE ""

\* the first pass of analyzeHandlerFunction: the variables assigned from
\* service calls
serviceCallResults(body) ==
    LET m[i \in 0..Len(body)] ==
            IF i = 0 THEN <<>>
            ELSE LET st == body[i]
                 IN IF /\ st.kind = "AssignCall"
                       /\ st.expr # <<>>
                       /\ extractServiceCallResponseType(st.expr[1]) # ""
                    THEN Put(m[i - 1], st.var, extractServiceCallResponseType(st.expr[1]))
                    ELSE m[i - 1]
    IN m[Len(body)]

\* the first pass of analyzeHandlerFunction: the variables declared with, or
\* assigned a literal of, a response type
responseVariables(body) ==
    LET m[i \in 0..Len(body)] ==
            IF i = 0 THEN <<>>
            ELSE LET st == body[i]
                     typeName == IF st.expr = <<>> THEN "" ELSE extractTypeFromExpr(st.expr[1])
                 IN IF /\ st.kind \in {"VarDecl", "AssignLit"}
                       /\ st.expr # <<>>
                       /\ st.expr[1].kind # "StructType"
                       /\ typeName # ""
                       /\ isResponseType(typeName)
                    THEN Put(m[i - 1], st.var, typeName)
                    ELSE m[i - 1]
    IN m[Len(body)]

\* extractResponseType of the argument of a JSON call
extractResponseType(st) ==
    CASE st.fn = "CompositeLit" -> extractTypeFromExpr(st.expr[1])
      [] st.fn = "Ident" -> st.var
      [] OTHER -> ""

\* a resolution that asks the response variables before the service call
\* results
handleJSONResponseCall_responseVariableFirst(st, body, handlerInfo) ==
    LET svc == serviceCallResults(body)
        resp == responseVariables(body)
        types == variableTypes(body)
        isVar == st.fn = "Ident" /\ ~st.amp
        set(t) == [handlerInfo EXCEPT !.ResponseType = Analyzer_cleanTypeName(t)]
    IN IF isVar /\ st.var \in DOMAIN resp THEN set(resp[st.var])
       ELSE IF isVar /\ st.var \in DOMAIN svc THEN set(svc[st.var])
       ELSE IF isVar /\ st.var \in DOMAIN types /\ isResponseType(types[st.var])
       THEN set(types[st.var])
       ELSE IF extractResponseType(st) # "" THEN set(extractResponseType(st))
       ELSE handlerInfo

handleJSONResponseCall(st, body, handlerInfo) ==
    LET svc == serviceCallResults(body)
        resp == responseVariables(body)
        types == variableTypes(body)
        isVar == st.fn = "Ident" /\ ~st.amp
        set(t) == [handlerInfo EXCEPT !.ResponseType = Analyzer_cleanTypeName(t)]
    IN IF isVar /\ st.var \in DOMAIN svc THEN set(svc[st.var])
       ELSE IF isVar /\ st.var \in DOMAIN resp THEN set(resp[st.var])
       ELSE IF isVar /\ st.var \in DOMAIN types /\ isResponseType(types[st.var])
       THEN set(types[st.var])
       ELSE IF /\ st.fn = "SelectorExpr"
               /\ ~st.amp
               /\ st.expr[1].kind = "SelectorExpr"
               /\ st.expr[1].sub[1].kind = "Ident"
               /\ st.expr[1].sub[1].name = "fiber"
               /\ st.expr[1].name = "Map"
       THEN [handlerInfo EXCEPT !.ResponseType = "StandardResponse"]
       ELSE IF extractResponseType(st) # "" THEN set(extractResponseType(st))
       ELSE handlerInfo

\* extractResponseTypeFromHelper
extractResponseTypeFromHelper(fn) ==
    CASE fn = "createSuccessResponse" -> "StandardResponse"
      [] fn = "createErrorResponse" -> "ErrorResponse"
      [] OTHER -> ""

\* the choices of the range over queryParamAssignments: one variable for each
\* parameter name that some variable holds
QueryVarChoices(body) ==
    LET qpa == queryParamAssignments(body)
        names == Range(qpa)
    IN {pick \in [names -> DOMAIN qpa] : \A n \in names : qpa[pick[n]] = n}

\* analyzeHandlerFunction: <<>> for nil, else the HandlerInfo
analyzeHandlerFunction(funcDecl, pick, models) ==
    LET body == funcDecl.Body
        info[i \in 0..Len(body)] ==
            IF i = 0 THEN HandlerInfo0(funcDecl.Name)
            ELSE CASE body[i].kind \in {"AssignQuery", "Query"} ->
                        handleQueryCall(body[i], body, info[i - 1], pick)
                   [] body[i].kind = "TypedQuery" ->
                        handleTypedQueryCalls(body[i], info[i - 1])
                   [] body[i].kind = "QueryParser" ->
                        handleQueryParserCall(body[i], body, info[i - 1], models)
                   [] body[i].kind = "BodyParser" ->
                        handleBodyParserCall(body[i], body, info[i - 1])
                   [] body[i].kind = "JSON" ->
                        handleJSONResponseCall(body[i], body, info[i - 1])
                   [] body[i].kind = "Helper"
                         /\ extractResponseTypeFromHelper(body[i].fn) # "" ->
                        [info[i - 1] EXCEPT !.ResponseType =
                            Analyzer_cleanTypeName(extractResponseTypeFromHelper(body[i].fn))]
                   [] OTHER -> info[i - 1]
    IN IF ~isFiberHandler(funcDecl) THEN <<>> ELSE <<info[Len(body)]>>

(***************************************************************************)
(* Analyzer: route registration                                            *)
(*                                                                         *)
(* A call of RegisterRoutes has the receiver identifier X, the selector    *)
(* Sel and its Args; an argument has the kind of its node and a text: the  *)
(* source text of a basic literal, the name of an identifier, the selector *)
(* name of the function of a call ("" when it is not a selector).          *)
(***************************************************************************)
Arg(kind, text) == [kind |-> kind, text |-> text]

CallExpr(x, sel, args) == [X |-> x, Sel |-> sel, Args |-> args]

isHTTPMethod(method) ==
    method \in {"GET", "POST", "PUT", "DELETE", "PATCH", "HEAD", "OPTIONS"}

\* the submatches of :([^/]+) in the path, as path parameters
extractPathParameters(path) ==
    LET n == Len(path)
        runEnd[i \in 1..(n + 1)] ==
            IF i > n \/ Char(path, i) = "/" THEN i ELSE runEnd[i + 1]
        scan[i \in 1..(n + 1)] ==
            IF i > n THEN <<>>
            ELSE IF Char(path, i) = ":" /\ runEnd[i + 1] > i + 1
            THEN <<[Name |-> SubSeq(path, i + 1, runEnd[i + 1] - 1), In |-> "path",
                    Required |-> TRUE, Type |-> "string", Enum |-> <<>>,
                    Default |-> NilDefault]>> \o scan[runEnd[i + 1]]
            ELSE scan[i + 1]
    IN scan[1]

\* the first of the names that is a key of the table, as a pointer to a copy
firstModel(models, possibleNames) ==
    LET hits == {i \in 1..Len(possibleNames) : possibleNames[i] \in DOMAIN models}
    IN IF hits = {} THEN <<>>
       ELSE <<models[possibleNames[CHOOSE i \in hits : \A j \in hits : i <= j]]>>

\* parseRouteCall for a call on the router itself (no route group is
\* registered): the route (<<>> for nil), the model table and the handler
\* table after the call
parseRouteCall(callExpr, packageName, handlerTable, models, groups) ==
    LET method == ToUpper(callExpr.Sel)
        args == callExpr.Args
        nothing == [route |-> <<>>, models |-> models, handlers |-> handlerTable]
        path == IF args[1].kind = "BasicLit" THEN TrimQuotes(args[1].text) ELSE ""
        handlerName == IF args[Len(args)].kind = "Ident" THEN args[Len(args)].text ELSE ""
        handlerInfo == IF handlerName \in DOMAIN handlerTable THEN handlerTable[handlerName]
                       ELSE HandlerInfo0(handlerName)
        mw[i \in 1..Len(args)] ==
            IF i = 1 THEN <<>>
            ELSE IF args[i].kind = "CallExpr" /\ args[i].text # ""
            THEN Append(mw[i - 1], args[i].text)
            ELSE mw[i - 1]
        cleanRequestType == Analyzer_cleanTypeName(handlerInfo.RequestType)
        anonymous == handlerInfo.RequestType # ""
                     /\ cleanRequestType \notin DOMAIN models
                     /\ handlerInfo.AnonymousRequestModel # <<>>
        modelName == IF handlerInfo.AnonymousRequestModel[1].Name \in DOMAIN models
                     THEN handlerName \o handlerInfo.AnonymousRequestModel[1].Name
                     ELSE handlerInfo.AnonymousRequestModel[1].Name
        renamed == [handlerInfo.AnonymousRequestModel[1] EXCEPT !.Name = modelName]
        requestBody ==
            IF handlerInfo.RequestType = "" THEN <<>>
            ELSE IF cleanRequestType \in DOMAIN models THEN <<models[cleanRequestType]>>
            ELSE IF anonymous THEN <<renamed>>
            ELSE firstModel(models, <<cleanRequestType, handlerInfo.RequestType,
                                      TrimPrefix(handlerInfo.RequestType, "*"),
                                      TrimPrefix(handlerInfo.RequestType, "sdk.")>>)
        cleanResponseType == Analyzer_cleanTypeName(handlerInfo.ResponseType)
        response ==
            IF handlerInfo.ResponseType = "" THEN <<>>
            ELSE IF cleanResponseType \in DOMAIN models THEN <<models[cleanResponseType]>>
            ELSE firstModel(models, <<cleanResponseType, handlerInfo.ResponseType,
                                      TrimPrefix(handlerInfo.ResponseType, "*"),
                                      TrimPrefix(handlerInfo.ResponseType, "sdk.")>>)
        queryParams == [i \in 1..Len(handlerInfo.QueryParameters) |->
                           LET q == handlerInfo.QueryParameters[i]
                           IN [Name |-> q.Name, In |-> "query", Required |-> q.Required,
                               Type |-> q.Type, Enum |-> q.Enum, Default |-> q.Default]]
        basePath == "/" \o packageName
        fullPath == IF callExpr.X \in DOMAIN groups
                    THEN basePath \o groups[callExpr.X] \o path
                    ELSE basePath \o path
        route == [Path |-> fullPath, Method |-> method,
                  Handler |-> handlerName, Middleware |-> mw[Len(args) - 1],
                  RequestBody |-> requestBody, Response |-> response,
                  Parameters |-> extractPathParameters(path) \o queryParams,
                  Tags |-> <<packageName>>]
    IN IF ~isHTTPMethod(method) \/ Len(args) < 2 THEN nothing
       ELSE IF handlerName = "" THEN nothing
       ELSE [route |-> <<route>>,
             models |-> IF anonymous THEN Put(models, modelName, renamed) ELSE models,
             handlers |-> IF anonymous
                          THEN [handlerTable EXCEPT
                                   ![handlerName].AnonymousRequestModel = <<renamed>>]
                          ELSE handlerTable]

(***************************************************************************)
(* Analyze as a state machine                                              *)
(*                                                                         *)
(* parseSDKModels walks the sdk tree and meets struct declarations;        *)
(* parseRouteFile analyzes the function declarations of the handler files, *)
(* collects their anonymous request models and walks the calls of          *)
(* RegisterRoutes; parseRoutes then adds the collected models.  What the   *)
(* walk meets next is the environment's choice.                            *)
(***************************************************************************)
MaxDecls == 2
MaxFuncs == 2
MaxCalls == 1

\* a struct type declaration: the file that holds it and the function whose
\* body declares it ("" for a declaration at the top level of the file)
TypeSpecIn(file, func, name, structType) ==
    [Name |-> name, Struct |-> structType, File |-> file, Func |-> func]

TypeSpec(name, structType) == TypeSpecIn("sdk/user.go", "", name, structType)

\* the files the callback of parseSDKModels returns nil for without parsing
SkippedFile(path) == ~HasSuffix(path, ".go") \/ HasSuffix(path, "_test.go")

\* the struct declarations the sdk tree may hold
DeclPool ==
    {TypeSpec("User", StructType(<<
        AstField(<<"ID">>, Ident("int"), <<"json:\"id\"">>),
        AstField(<<"Name">>, Ident("string"), <<"json:\"name,omitempty\"">>),
        AstField(<<"Nick">>, Ident("string"), <<>>),
        AstField(<<"age">>, Ident("int"), <<>>)>>)),
     TypeSpec("User", StructType(<<
        AstField(<<>>, Ident("Base"), <<>>),
        AstField(<<>>, StarExpr(SelectorExpr(Ident("sdk"), "Audit")),
                 <<"json:\"audit,omitempty\"">>),
        AstField(<<"Email">>, Ident("string"), <<"bson:\"email\"">>),
        AstField(<<"Roles", "Groups">>, ArrayType(Ident("string")), <<>>)>>)),
     TypeSpec("UserRequest", StructType(<<
        AstField(<<"Email">>, Ident("string"), <<"json:\"email\"">>),
        AstField(<<"Meta">>, MapType(Ident("string"), InterfaceType), <<>>),
        AstField(<<"Skip">>, Ident("int"), <<"json:\"skip\"">>),
        AstField(<<"Limit">>, Ident("int"), <<>>),
        AstField(<<"SortOrder">>, Ident("string"), <<>>)>>)),
     TypeSpec("config", StructType(<<
        AstField(<<"Path">>, Ident("string"), <<"json:\"path\"">>),
        AstField(<<"retries">>, Ident("int"), <<"json:\"retries\"">>)>>)),
     TypeSpecIn("sdk/user.go", "NewUser", "Options", StructType(<<
        AstField(<<"Strict">>, Ident("bool"), <<"json:\"strict\"">>)>>)),
     TypeSpecIn("sdk/user_test.go", "", "Fixture", StructType(<<
        AstField(<<"Name">>, Ident("string"), <<"json:\"name\"">>)>>))}

CtxParams == <<StarExpr(SelectorExpr(Ident("fiber"), "Ctx"))>>

\* the parameter names the handlers fetch
ParamNames ==
    {"page", "limit", "count", "id", "user_id", "Page", "price", "rate", "score",
     "weight", "rate_limit", "price_from", "is_rate", "show_price", "width",
     "name", "q", "sort_order", "is_valid", "enabled", "has_id", "is_active",
     "should_retry", "feature_flag"}

Quoted(text) == "\"" \o text \o "\""

\* a handler that fetches one named parameter and uses it the given way
QueryHandler(name, usage) ==
    FuncDecl("ListUsers", CtxParams,
        CASE usage = "bare" ->
               <<Stmt("Query", "", <<>>, "", <<Quoted(name)>>, FALSE)>>
          [] usage = "unused" ->
               <<Stmt("AssignQuery", "v", <<>>, "", <<Quoted(name), Quoted("1")>>, FALSE)>>
          [] usage = "atoi" ->
               <<Stmt("AssignQuery", "v", <<>>, "", <<Quoted(name)>>, FALSE),
                 Stmt("Strconv", "v", <<>>, "Atoi", <<>>, FALSE)>>
          [] usage = "float" ->
               <<Stmt("Convert", "v", <<>>, "float64", <<>>, FALSE),
                 Stmt("AssignQuery", "v", <<>>, "", <<Quoted(name)>>, FALSE)>>
          [] usage = "cmp" ->
               <<Stmt("AssignQuery", "v", <<>>, "", <<Quoted(name)>>, FALSE),
                 Stmt("IfEq", "v", <<>>, "", <<Quoted("asc")>>, FALSE),
                 Stmt("TypedQuery", "", <<>>, "QueryInt", <<Quoted("n")>>, FALSE)>>
          [] usage = "switch" ->
               <<Stmt("AssignQuery", "v", <<>>, "", <<Quoted(name)>>, FALSE),
                 Stmt("Switch", "v", <<>>, "", <<Quoted("open"), Quoted("closed")>>, FALSE)>>)

\* the bodies of the handlers that emit a response: the statements that bind
\* the variable out, and the calls that emit it, a literal or a selector
ResponseBodies ==
    LET DeclareResponse ==
            Stmt("VarDecl", "out", <<SelectorExpr(Ident("sdk"), "UserResponse")>>, "", <<>>, FALSE)
        AssignService ==
            Stmt("AssignCall", "out",
                 <<SelectorExpr(SelectorExpr(SelectorExpr(Ident("pr"), "S"), "Users"), "ListUsers")>>,
                 "", <<>>, FALSE)
        AssignLocalCall ==
            Stmt("AssignCall", "out", <<SelectorExpr(Ident("repo"), "FindUser")>>, "", <<>>, FALSE)
        AssignNewResult ==
            Stmt("AssignNew", "out", <<SelectorExpr(Ident("sdk"), "ItemResult")>>, "", <<>>, FALSE)
        AssignNewUser ==
            Stmt("AssignNew", "out", <<SelectorExpr(Ident("sdk"), "User")>>, "", <<>>, FALSE)
        EmitVariable == Stmt("JSON", "out", <<>>, "Ident", <<>>, FALSE)
        EmitAddress == Stmt("JSON", "out", <<>>, "Ident", <<>>, TRUE)
        EmitMapLiteral ==
            Stmt("JSON", "", <<SelectorExpr(Ident("fiber"), "Map")>>, "CompositeLit", <<>>, FALSE)
        EmitSelector ==
            Stmt("JSON", "", <<SelectorExpr(Ident("fiber"), "Map")>>, "SelectorExpr", <<>>, FALSE)
        EmitLiteral ==
            Stmt("JSON", "", <<SelectorExpr(Ident("sdk"), "UserResponse")>>, "CompositeLit", <<>>, TRUE)
        EmitError == Stmt("Helper", "", <<>>, "createErrorResponse", <<>>, FALSE)
    IN {<<DeclareResponse, AssignService, EmitVariable>>,
        <<AssignService, DeclareResponse, AssignNewResult, EmitVariable>>,
        <<DeclareResponse, AssignNewResult, EmitVariable>>,
        <<AssignNewResult, EmitVariable>>,
        <<AssignNewUser, EmitVariable>>,
        <<AssignLocalCall, EmitVariable>>,
        <<DeclareResponse, EmitAddress>>,
        <<EmitMapLiteral>>,
        <<EmitError, EmitMapLiteral>>,
        <<EmitSelector>>,
        <<EmitLiteral>>,
        <<DeclareResponse, EmitVariable, EmitError>>,
        <<EmitError, AssignNewUser, EmitVariable>>,
        <<AssignNewUser>>}

\* the bodies of the handlers that bind a struct from the query: the variable
\* is declared with a named type, created with new, or holds an anonymous
\* struct
QueryParserBodies ==
    {<<Stmt("VarDecl", "filter", <<SelectorExpr(Ident("sdk"), "UserRequest")>>, "", <<>>, FALSE),
       Stmt("QueryParser", "filter", <<>>, "", <<>>, TRUE)>>,
     <<Stmt("AssignNew", "filter", <<SelectorExpr(Ident("sdk"), "User")>>, "", <<>>, FALSE),
       Stmt("QueryParser", "filter", <<>>, "", <<>>, FALSE)>>,
     <<Stmt("VarDecl", "filter",
            <<StructType(<<AstField(<<"Page">>, Ident("int"), <<>>),
                           AstField(<<"Limit">>, Ident("int"), <<"query:\"limit\"">>)>>)>>,
            "", <<>>, FALSE),
       Stmt("QueryParser", "filter", <<>>, "", <<>>, TRUE)>>}

\* the function declarations the handler files may hold
FuncPool ==
    {FuncDecl("ListUsers", CtxParams, body) : body \in QueryParserBodies}
    \cup
    {FuncDecl("ListUsers", CtxParams, body) : body \in ResponseBodies}
    \cup
    {QueryHandler(name, "bare") : name \in ParamNames}
    \cup {QueryHandler(name, "unused") : name \in {"page", "q", "is_valid"}}
    \cup {QueryHandler(name, usage) :
             name \in {"page", "price", "name"},
             usage \in {"atoi", "float", "cmp", "switch"}}
    \cup
    {FuncDecl("CreateUser", CtxParams,
        <<Stmt("VarDecl", "req",
               <<StructType(<<AstField(<<"Email">>, Ident("string"), <<>>)>>)>>,
               "", <<>>, FALSE),
          Stmt("BodyParser", "req", <<>>, "", <<>>, TRUE)>>),
     FuncDecl("UpdateUser", CtxParams,
        <<Stmt("AssignLit", "req",
               <<StructType(<<
                   AstField(<<"Name">>, Ident("string"), <<"json:\"name\"">>),
                   AstField(<<"Bio">>, Ident("string"), <<"json:\"bio,omitempty\"">>),
                   AstField(<<"UserTags">>, ArrayType(Ident("string")), <<>>)>>)>>,
               "", <<>>, FALSE),
          Stmt("BodyParser", "req", <<>>, "", <<>>, TRUE)>>),
     FuncDecl("SaveFile", CtxParams,
        <<Stmt("VarDecl", "body",
               <<StructType(<<
                   AstField(<<"FileName">>, Ident("string"), <<>>),
                   AstField(<<"Size">>, Ident("int64"), <<"json:\"size\"">>)>>)>>,
               "", <<>>, FALSE),
          Stmt("BodyParser", "body", <<>>, "", <<>>, TRUE)>>),
     FuncDecl("CreateOrder", CtxParams,
        <<Stmt("AssignNew", "req", <<StarExpr(SelectorExpr(Ident("sdk"), "User"))>>,
               "", <<>>, FALSE),
          Stmt("BodyParser", "req", <<>>, "", <<>>, FALSE)>>),
     FuncDecl("decode", <<Ident("string"), Ident("int")>>,
        <<Stmt("VarDecl", "req",
               <<StructType(<<AstField(<<"Raw">>, Ident("string"), <<>>)>>)>>,
               "", <<>>, FALSE),
          Stmt("BodyParser", "req", <<>>, "", <<>>, TRUE)>>)}

\* the calls the body of RegisterRoutes may hold
CallPool ==
    {CallExpr("router", "Post", <<Arg("BasicLit", Quoted("/users")), Arg("Ident", "CreateUser")>>),
     CallExpr("router", "Put", <<Arg("BasicLit", Quoted("/users/:id")),
                                 Arg("CallExpr", "RequireAuth"),
                                 Arg("Ident", "UpdateUser")>>),
     CallExpr("router", "Use", <<Arg("CallExpr", "New")>>),
     CallExpr("v1", "Get", <<Arg("BasicLit", Quoted("/users/:id/files/:fileId")),
                             Arg("Ident", "authMiddleware"),
                             Arg("CallExpr", ""), Arg("CallExpr", "Logger"),
                             Arg("Ident", "ListUsers")>>),
     CallExpr("router", "Get", <<Arg("Ident", "usersPath"), Arg("Ident", "ListUsers")>>)}

\* the package of the route file
packageName == "api"

InitAnalyze ==
    /\ analysis = [Models |-> <<>>, Routes |-> <<>>]
    /\ pc = "parseSDKModels"
    /\ spec = Spec0
    /\ todo = {}
    /\ processedPaths = {}
    /\ tags = {}
    /\ routeIdx = 1
    /\ prev = <<>>
    /\ AnalyzerIdle
    /\ project \in [sdkDir : BOOLEAN, routesDir : BOOLEAN]

\* parseSDKFile meets a struct type declaration
ParseSDKStruct ==
    /\ pc = "parseSDKModels"
    /\ project.sdkDir
    /\ visits < MaxDecls
    /\ \E decl \in DeclPool :
          LET model == parseStruct(decl.Name, decl.Struct)
              cleanName == Analyzer_cleanTypeName(model.Name)
          IN /\ ~SkippedFile(decl.File)
             /\ analysis' = [analysis EXCEPT !.Models =
                                Put(@, cleanName, [model EXCEPT !.Name = cleanName])]
             /\ last' = <<decl>>
    /\ visits' = visits + 1
    /\ UNCHANGED <<pc, handlers, anonymousModels, returned>>
    /\ UNCHANGED <<spec, todo, processedPaths, tags, routeIdx, prev, project, routeGroups>>

\* the errors the walk of the sdk tree can meet: filepath.Walk hands the
\* callback the Lstat error of a root that does not exist, and parser.ParseFile
\* fails on a file it cannot read or parse
SDKErrors == {"lstat sdk: no such file or directory", "sdk/user.go: expected declaration"}

\* a variant of Analyze that hands back what it had collected when an error
\* stopped it
AnalyzeError_partial(prefix, err) == [analysis |-> <<analysis>>, err |-> prefix \o ": " \o err]

\* what Analyze returns on an error: no Analysis, and the wrapped error
AnalyzeError(prefix, err) == [analysis |-> <<>>, err |-> prefix \o ": " \o err]

\* what Analyze returns at its end
AnalyzeResult(a) == [analysis |-> <<a>>, err |-> ""]

\* the callback of parseSDKModels returns an error: the walk stops,
\* parseSDKModels returns the error and Analyze returns nil and the error
ParseSDKModelsFails ==
    /\ pc = "parseSDKModels"
    /\ \E err \in SDKErrors :
          /\ HasPrefix(err, "lstat sdk") <=> ~project.sdkDir
          /\ returned' = <<AnalyzeError("failed to parse SDK models", err)>>
    /\ pc' = "failed"
    /\ UNCHANGED <<analysis, last, visits, handlers, anonymousModels>>
    /\ UNCHANGED <<spec, todo, processedPaths, tags, routeIdx, prev, project, routeGroups>>

\* parseSDKModels returns; parseRoutes starts on the route file
ParseSDKModelsReturns ==
    /\ pc = "parseSDKModels"
    /\ project.sdkDir
    /\ pc' = "parseHandlers"
    /\ last' = <<>>
    /\ visits' = 0
    /\ UNCHANGED <<analysis, handlers, anonymousModels, returned>>
    /\ UNCHANGED <<spec, todo, processedPaths, tags, routeIdx, prev, project, routeGroups>>

\* parseHandlerFile meets a function declaration
AnalyzeHandlerFunction ==
    /\ pc = "parseHandlers"
    /\ project.routesDir
    /\ visits < MaxFuncs
    /\ \E funcDecl \in FuncPool : \E pick \in QueryVarChoices(funcDecl.Body) :
          LET handlerInfo == analyzeHandlerFunction(funcDecl, pick, analysis.Models)
          IN /\ handlers' = IF handlerInfo = <<>> THEN handlers
                            ELSE Put(handlers, funcDecl.Name, handlerInfo[1])
             /\ last' = <<funcDecl>>
    /\ visits' = visits + 1
    /\ UNCHANGED <<analysis, pc, anonymousModels, returned>>
    /\ UNCHANGED <<spec, todo, processedPaths, tags, routeIdx, prev, project, routeGroups>>

\* the handlers with an anonymous request model of the name
AnonymousOwners(name) ==
    {h \in DOMAIN handlers :
        /\ handlers[h].AnonymousRequestModel # <<>>
        /\ handlers[h].AnonymousRequestModel[1].Name = name}

\* parseRouteFile collects the anonymous models of the handlers: a range over
\* the handler table, so of the handlers with one model name any may be last
CollectAnonymousModels ==
    /\ pc = "parseHandlers"
    /\ project.routesDir
    /\ LET names == {handlers[h].AnonymousRequestModel[1].Name :
                        h \in {x \in DOMAIN handlers :
                                  handlers[x].AnonymousRequestModel # <<>>}}
       IN \E owner \in [names -> DOMAIN handlers] :
             /\ \A n \in names : owner[n] \in AnonymousOwners(n)
             /\ anonymousModels' =
                    [n \in DOMAIN anonymousModels \cup names |->
                        IF n \in names THEN handlers[owner[n]].AnonymousRequestModel[1]
                        ELSE anonymousModels[n]]
    /\ pc' = "parseRoutes"
    /\ last' = <<>>
    /\ visits' = 0
    /\ UNCHANGED <<analysis, handlers, returned>>
    /\ UNCHANGED <<spec, todo, processedPaths, tags, routeIdx, prev, project, routeGroups>>

\* parseRegisterRoutesFunction meets a call expression
ParseRouteCall ==
    /\ pc = "parseRoutes"
    /\ visits < MaxCalls
    /\ \E callExpr \in CallPool :
          LET r == parseRouteCall(callExpr, packageName, handlers, analysis.Models, routeGroups)
          IN /\ analysis' = [Models |-> r.models, Routes |-> analysis.Routes \o r.route]
             /\ handlers' = r.handlers
             /\ last' = <<callExpr>>
    /\ visits' = visits + 1
    /\ UNCHANGED <<pc, anonymousModels, returned>>
    /\ UNCHANGED <<spec, todo, processedPaths, tags, routeIdx, prev, project, routeGroups>>

\* the route group assignments the body of RegisterRoutes may hold:
\* <variable> := router.Group(<literal>)
GroupPool == {[Variable |-> "v1", BasePath |-> Quoted("/v1")]}

\* parseRegisterRoutesFunction meets a route group assignment; the call on its
\* right side is no route call.  The route files declare their groups before
\* their routes.
AssignRouteGroup ==
    /\ pc = "parseRoutes"
    /\ visits = 0
    /\ \E group \in GroupPool :
          /\ parseRouteCall(CallExpr("router", "Group", <<Arg("BasicLit", group.BasePath)>>),
                            packageName, handlers, analysis.Models, routeGroups).route = <<>>
          /\ routeGroups' = Put(routeGroups, group.Variable, TrimQuotes(group.BasePath))
          /\ group.Variable \notin DOMAIN routeGroups
    /\ last' = <<>>
    /\ UNCHANGED <<analysis, pc, visits, handlers, anonymousModels, returned>>
    /\ UNCHANGED <<spec, todo, processedPaths, tags, routeIdx, prev, project>>

\* parseRoutes adds the collected anonymous models whose name is free; Analyze
\* returns
AddAnonymousModels ==
    /\ pc = "parseRoutes"
    /\ analysis' = [analysis EXCEPT !.Models =
                       [n \in DOMAIN analysis.Models \cup DOMAIN anonymousModels |->
                           IF n \in DOMAIN analysis.Models THEN analysis.Models[n]
                           ELSE anonymousModels[n]]]
    /\ pc' = "analyzed"
    /\ last' = <<>>
    /\ returned' = <<AnalyzeResult(analysis')>>
    /\ UNCHANGED <<visits, handlers, anonymousModels>>
    /\ UNCHANGED <<spec, todo, processedPaths, tags, routeIdx, prev, project, routeGroups>>

\* the routes pattern matches no file, as when there is no routes directory:
\* filepath.Glob returns no match and no error, the loop over the route files
\* has nothing to visit and Analyze returns the Analysis
NoRouteFiles ==
    /\ pc = "parseHandlers"
    /\ visits = 0
    /\ pc' = "analyzed"
    /\ returned' = <<AnalyzeResult(analysis)>>
    /\ UNCHANGED <<analysis, last, visits, handlers, anonymousModels>>
    /\ UNCHANGED <<spec, todo, processedPaths, tags, routeIdx, prev, project, routeGroups>>

\* the errors parseRoutes can meet: filepath.Glob rejects the pattern, and
\* parser.ParseFile fails on a route file or on a handler file of its directory
RouteErrors ==
    {"syntax error in pattern",
     "failed to parse route file routes/api/router.go: expected 'package'",
     "routes/api/handlers.go: expected declaration"}

\* parseRoutes returns an error and Analyze returns nil and the error.  The
\* pattern is tried before any file; the route file is parsed before its
\* handler files; after the calls of one route file the loop goes on to the
\* next, which may fail in turn
ParseRoutesFails ==
    /\ pc \in {"parseHandlers", "parseRoutes"}
    /\ \E err \in RouteErrors :
          /\ err = "syntax error in pattern" => pc = "parseHandlers" /\ visits = 0
          /\ err # "syntax error in pattern" => project.routesDir
          /\ HasPrefix(err, "failed to parse route file") =>
                 pc = "parseRoutes" \/ visits = 0
          /\ returned' = <<AnalyzeError("failed to parse routes", err)>>
    /\ pc' = "failed"
    /\ UNCHANGED <<analysis, last, visits, handlers, anonymousModels>>
    /\ UNCHANGED <<spec, todo, processedPaths, tags, routeIdx, prev, project, routeGroups>>

\* main after Analyze: log.Fatalf on an error, else Generate and writeOutput
MainAfterAnalyze ==
    /\ pc \in {"failed", "analyzed"}
    /\ pc' = IF returned[1].err # "" THEN "fatal" ELSE "generate"
    /\ UNCHANGED <<analysis, last, visits, handlers, anonymousModels, returned>>
    /\ UNCHANGED <<spec, todo, processedPaths, tags, routeIdx, prev, project, routeGroups>>

NextAnalyze ==
    \/ ParseSDKStruct
    \/ ParseSDKModelsFails
    \/ ParseSDKModelsReturns
    \/ AnalyzeHandlerFunction
    \/ CollectAnonymousModels
    \/ ParseRouteCall
    \/ AssignRouteGroup
    \/ AddAnonymousModels
    \/ NoRouteFiles
    \/ ParseRoutesFails
    \/ MainAfterAnalyze

SpecAnalyze == InitAnalyze /\ [][NextAnalyze]_vars

(***************************************************************************)
(* Properties of Analyze                                                   *)
(***************************************************************************)
\* the names under which a field of a struct type becomes model fields: the
\* type string of an embedded field, the exported names of a declared struct's
\* field, every name of an anonymous struct's field
ModelFieldNames(field, anonymous) ==
    IF Len(field.Names) = 0
    THEN IF anonymous THEN {} ELSE {getTypeStringWithArrays(field.Type)}
    ELSE {field.Names[j] : j \in {k \in 1..Len(field.Names) :
                                     anonymous \/ IsExported(field.Names[k])}}

\* the serialization name of a field name under the field's tag
SerializationName(name, field) ==
    fieldKey([Name |-> name,
              JSONTag |-> IF field.Tag = <<>> THEN "" ELSE extractJSONTag(field.Tag[1])])

\* the required list of the model's schema follows the tags of the struct type
RequiredFollowsTags(structType, model, anonymous) ==
    LET required == Range(generateSchemaFromModel(model).Required)
    IN \A i \in 1..Len(structType.fields) :
          LET field == structType.fields[i]
          IN \A name \in ModelFieldNames(field, anonymous) :
                /\ field.Tag = <<>> => SerializationName(name, field) \in required
                /\ field.Tag # <<>> /\ Contains(extractJSONTag(field.Tag[1]), "omitempty")
                       => SerializationName(name, field) \notin required

\* the function declaration visited last body-bound an anonymous struct
BoundAnonymousStruct ==
    /\ pc = "parseHandlers"
    /\ last # <<>>
    /\ isFiberHandler(last[1])
    /\ \E i \in 1..Len(last[1].Body) :
          /\ last[1].Body[i].kind = "BodyParser"
          /\ last[1].Body[i].var \in DOMAIN anonymousStructs(last[1].Body)

\* the struct type of the first body-binding call on an anonymous struct
BoundStructType(funcDecl) ==
    LET body == funcDecl.Body
        binds == {i \in 1..Len(body) :
                     /\ body[i].kind = "BodyParser"
                     /\ body[i].var \in DOMAIN anonymousStructs(body)}
    IN anonymousStructs(body)[body[CHOOSE i \in binds : \A j \in binds : i <= j].var]

\* C5: for the model of the struct declaration the scanner visited last, and
\* for the anonymous request model of the handler analyzed last, a field whose
\* json tag carries omitempty is not in the schema's required list and a field
\* with no tag is in it
C5_RequiredFollowsTags ==
    /\ pc = "parseSDKModels" /\ last # <<>> =>
           RequiredFollowsTags(last[1].Struct,
                               analysis.Models[Analyzer_cleanTypeName(last[1].Name)], FALSE)
    /\ BoundAnonymousStruct =>
           RequiredFollowsTags(BoundStructType(last[1]),
                               handlers[last[1].Name].AnonymousRequestModel[1], TRUE)

\* a scanning step that leaves every entry of the model table as it was
C6_EntriesKept ==
    pc = "parseSDKModels" =>
        \A name \in DOMAIN analysis.Models :
            analysis'.Models[name] = analysis.Models[name]

\* C6: during declaration scanning a struct declaration whose name is already
\* in the model table leaves the entry unchanged (first-registered wins)
C6_FirstRegisteredWins == [][C6_EntriesKept]_vars

\* C8: the anonymous request model of a handler is named <handler>Request, is
\* the handler's request type, and its schema has, for each untagged field, a
\* property keyed by the snake-cased field name, typed from the field type and
\* listed as required
C8_AnonymousRequestSchema ==
    BoundAnonymousStruct =>
        LET info == handlers[last[1].Name]
            model == info.AnonymousRequestModel[1]
            schema == generateSchemaFromModel(model)
            fs == BoundStructType(last[1]).fields
        IN /\ cleanSchemaName(model.Name) = last[1].Name \o "Request"
           /\ info.RequestType = model.Name
           /\ \A i \in 1..Len(fs) : \A j \in 1..Len(fs[i].Names) :
                 fs[i].Tag = <<>> =>
                     LET key == toSnakeCase(fs[i].Names[j])
                         type == getTypeStringWithArrays(fs[i].Type)
                     IN /\ key \in DOMAIN schema.Properties
                        /\ schema.Properties[key] =
                               generateSchemaFromField(Fld(fs[i].Names[j], type, "", TRUE))
                        /\ key \in Range(schema.Required)

\* a statement of a function that yields a query parameter
YieldsQueryParameter(st) ==
    /\ st.kind \in {"Query", "AssignQuery", "TypedQuery"}
    /\ Len(st.args) >= 1
    /\ IsBasicLit(st.args[1])

\* the string-typed named fetches of a function whose result has no
\* conversion, parsing or comparison usage in the function
PlainFetches(funcDecl) ==
    {i \in 1..Len(funcDecl.Body) :
        /\ funcDecl.Body[i].kind \in {"Query", "AssignQuery"}
        /\ YieldsQueryParameter(funcDecl.Body[i])
        /\ \/ funcDecl.Body[i].kind = "Query"
           \/ \A j \in 1..Len(funcDecl.Body) :
                 funcDecl.Body[j].kind \in {"Strconv", "Convert", "IfEq"}
                     => funcDecl.Body[j].var # funcDecl.Body[i].var}

\* the query parameter the handler table holds for statement i of the function
FetchedParameter(funcDecl, i) ==
    handlers[funcDecl.Name].QueryParameters[
        Cardinality({j \in 1..i : YieldsQueryParameter(funcDecl.Body[j])})]

\* the lower-cased name contains one of the patterns
HasPattern(name, patterns) == \E p \in patterns : Contains(ToLower(name), p)

HasBooleanPattern(name) ==
    \/ HasPattern(name, Range(booleanPatterns))
    \/ \E prefix \in {"is_", "has_", "should_"} : HasPrefix(ToLower(name), prefix)

\* the function declaration analyzed last is a handler
HandlerAnalyzed ==
    pc = "parseHandlers" /\ last # <<>> /\ isFiberHandler(last[1])

\* C9 as stated: with no usage evidence a name containing page, limit, count or
\* id gives integer, a name containing price, rate, score or weight gives
\* number, and a name matching no pattern gives string
C9_NameDictionary ==
    HandlerAnalyzed =>
        \A i \in PlainFetches(last[1]) :
            LET name == TrimQuotes(last[1].Body[i].args[1])
                type == FetchedParameter(last[1], i).Type
            IN /\ HasPattern(name, {"page", "limit", "count", "id"}) => type = "integer"
               /\ HasPattern(name, {"price", "rate", "score", "weight"}) => type = "number"
               /\ ~HasPattern(name, Range(integerPatterns))
                      /\ ~HasBooleanPattern(name)
                      /\ ~HasPattern(name, Range(numberPatterns)) => type = "string"

\* C9, amended: with no usage evidence a name containing page, limit, count or
\* id gives integer; a name containing price, rate, score or weight gives
\* number when it contains no integer pattern and no boolean pattern or
\* prefix; a name matching no pattern gives string
C9_NameDictionaryInOrder ==
    HandlerAnalyzed =>
        \A i \in PlainFetches(last[1]) :
            LET name == TrimQuotes(last[1].Body[i].args[1])
                type == FetchedParameter(last[1], i).Type
            IN /\ HasPattern(name, {"page", "limit", "count", "id"}) => type = "integer"
               /\ HasPattern(name, {"price", "rate", "score", "weight"})
                      /\ ~HasPattern(name, Range(integerPatterns))
                      /\ ~HasBooleanPattern(name) => type = "number"
               /\ ~HasPattern(name, Range(integerPatterns))
                      /\ ~HasBooleanPattern(name)
                      /\ ~HasPattern(name, Range(numberPatterns)) => type = "string"

\* C9 witness: a handler was analyzed that fetches, with no usage of the
\* result, a name with a number pattern and no integer or boolean pattern, and
\* the parameter is a number
C9_Witness ==
    /\ HandlerAnalyzed
    /\ \E i \in PlainFetches(last[1]) :
          LET name == TrimQuotes(last[1].Body[i].args[1])
          IN /\ HasPattern(name, {"price", "rate", "score", "weight"})
             /\ ~HasPattern(name, Range(integerPatterns))
             /\ ~HasBooleanPattern(name)
             /\ FetchedParameter(last[1], i).Type = "number"

\* C11: when reading or parsing a model file, a handler file or a
\* route-registration file fails, or the routes pattern is invalid, Analyze
\* returns an error and no Analysis: the models and routes collected before the
\* failure are not returned; an Analysis is returned only without an error.
C11_FailureReturnsNoAnalysis ==
    /\ pc \in {"failed", "fatal"} =>
           /\ returned # <<>>
           /\ returned[1].err # ""
           /\ returned[1].analysis = <<>>
    /\ returned # <<>> /\ returned[1].analysis # <<>> =>
           /\ returned[1].err = ""
           /\ pc \in {"analyzed", "generate"}

\* a route file fails after models and a route were collected
C11_Witness ==
    /\ pc = "failed"
    /\ HasPrefix(returned[1].err, "failed to parse routes: failed to parse route file")
    /\ DOMAIN analysis.Models # {}
    /\ Len(analysis.Routes) > 0
    /\ returned[1].analysis = <<>>

\* the literals the statements of a body compare a variable against, in order
ComparedLiterals(body, var) ==
    LET lits[i \in 0..Len(body)] ==
            IF i = 0 THEN <<>>
            ELSE IF body[i].kind \in {"IfEq", "Switch"} /\ body[i].var = var
            THEN lits[i - 1] \o [k \in 1..Len(body[i].args) |-> TrimQuotes(body[i].args[k])]
            ELSE lits[i - 1]
    IN lits[Len(body)]

\* C17: when the variable that holds a named-parameter fetch is compared (==)
\* against string literals in an if condition, or is the tag of a switch with
\* literal cases, the query parameter of the fetch carries an enum whose
\* members are exactly those literals.
C17_ComparisonsGiveEnum ==
    HandlerAnalyzed =>
        \A i \in 1..Len(last[1].Body) :
            LET st == last[1].Body[i]
            IN /\ st.kind = "AssignQuery"
               /\ YieldsQueryParameter(st)
               /\ ComparedLiterals(last[1].Body, st.var) # <<>>
               => Range(FetchedParameter(last[1], i).Enum)
                      = Range(ComparedLiterals(last[1].Body, st.var))

\* C18: with no usage evidence, a parameter name that starts with is_, has_ or
\* should_, or that contains enabled, active or flag, is inferred as boolean
\* (for example is_valid, has_id, is_active).
C18_BooleanNames ==
    HandlerAnalyzed =>
        \A i \in PlainFetches(last[1]) :
            LET name == TrimQuotes(last[1].Body[i].args[1])
            IN \/ \E prefix \in {"is_", "has_", "should_"} : HasPrefix(name, prefix)
               \/ \E part \in {"enabled", "active", "flag"} : Contains(name, part)
               => FetchedParameter(last[1], i).Type = "boolean"

\* a step of the declaration scanner: it registers nothing for a struct type
\* that is unexported or declared in a function body or in a test file, and
\* the model it registers has none of the unexported named fields
C14_ScannerStep ==
    pc = "parseSDKModels" /\ visits' = visits + 1 =>
        LET decl == last'[1]
            name == Analyzer_cleanTypeName(decl.Name)
            fields == decl.Struct.fields
        IN /\ ~IsExported(decl.Name) \/ decl.Func # "" \/ SkippedFile(decl.File)
                  => analysis'.Models = analysis.Models
           /\ name \in DOMAIN analysis'.Models =>
                  \A i \in 1..Len(fields) : \A j \in 1..Len(fields[i].Names) :
                      ~IsExported(fields[i].Names[j]) =>
                          \A k \in 1..Len(analysis'.Models[name].Fields) :
                              analysis'.Models[name].Fields[k].Name # fields[i].Names[j]

\* C14: the declaration scanner builds a Model only for exported, top-level
\* struct type declarations in non-test files: an unexported struct type or
\* one declared inside a function body never enters the model table, and no
\* unexported named field is in a model.
C14_OnlyExportedTopLevelStructs == [][C14_ScannerStep]_vars

\* the error Analyze returned comes from a source file or from the pattern
SourceFailure ==
    /\ returned # <<>>
    /\ \/ \E e \in RouteErrors : returned[1].err = "failed to parse routes: " \o e
       \/ \E e \in SDKErrors :
             /\ ~HasPrefix(e, "lstat")
             /\ returned[1].err = "failed to parse SDK models: " \o e

\* C12: a missing model directory or a missing routes directory is never
\* fatal: unless a source file or the pattern fails, Analyze returns an
\* Analysis without error and main goes on to produce the document.
C12_MissingDirectoryNotFatal ==
    /\ returned # <<>>
    /\ ~project.sdkDir \/ ~project.routesDir
    /\ ~SourceFailure
    => /\ returned[1].err = ""
       /\ returned[1].analysis # <<>>
       /\ pc # "fatal"

(***************************************************************************)
(* Properties of Generate: operations, schema names, properties            *)
(***************************************************************************)
\* C13: every route whose method is a recognized HTTP verb (GET, POST, PUT,
\* DELETE, PATCH, HEAD, OPTIONS) has, once the loop is through it, an operation
\* for that verb under its normalized path (the one of the first route with
\* its key, by C4).
C13_EveryVerbRouteHasOperation ==
    \A i \in 1..RoutesDone :
        LET route == analysis.Routes[i]
            path == convertPathFormat(route.Path)
        IN isHTTPMethod(route.Method) =>
              /\ path \in DOMAIN spec.Paths
              /\ SlotOf(route.Method) # ""
              /\ spec.Paths[path][SlotOf(route.Method)] # <<>>

\* a non-empty identifier: a letter, then letters, digits and underscores
IsCleanName(name) ==
    /\ Len(name) > 0
    /\ IsLetter(Char(name, 1))
    /\ \A i \in 1..Len(name) : IsIdentChar(Char(name, i))

\* names as they reach cleanSchemaName: model names, field types, and names
\* with nothing or no letter to start from
RawNames ==
    {"User", "*User", "pkg.User", "*sdk.User", "a.b.Item", "_Legacy", "9Lives",
     "", "*", "pkg.", "[]User", "map[string]Ghost", "Schema_Legacy", "UnknownSchema",
     "user-list", "User_2"}

\* the canonicalization pass has run
NamesCleaned == pc \in {"validateSchemas", "validatePaths", "removeInvalidReferences", "done"}

\* C15: after the canonicalization pass every key of the schema table is a
\* non-empty identifier that starts with a letter and has only letters, digits
\* and underscores, and cleanSchemaName is idempotent: it returns a cleaned
\* name unchanged.
C15_SchemaNamesCanonical ==
    NamesCleaned =>
        /\ \A k \in DOMAIN spec.Schemas : IsCleanName(k) /\ cleanSchemaName(k) = k
        /\ \A n \in RawNames \cup DOMAIN analysis.Models :
               /\ IsCleanName(cleanSchemaName(n))
               /\ cleanSchemaName(cleanSchemaName(n)) = cleanSchemaName(n)

\* C15 witness: the pass has run on a table one of whose schemas comes from a
\* model with a package-qualified name
C15_Witness ==
    /\ pc = "validateSchemas"
    /\ "pkg.User" \in DOMAIN analysis.Models
    /\ "User" \in DOMAIN spec.Schemas
    /\ cleanSchemaName("_Legacy") = "Schema_Legacy"
    /\ cleanSchemaName("*") = "UnknownSchema"

\* the serialization name of a field: the name its tag gives, else the
\* snake-cased field name
SerializationKey(field) ==
    IF FirstPart(field.JSONTag) # "" THEN FirstPart(field.JSONTag)
    ELSE toSnakeCase(field.Name)

\* the models whose schema name no other model of the table cleans to
OwnSchema ==
    {k \in DOMAIN analysis.Models :
        \A k2 \in DOMAIN analysis.Models :
            cleanSchemaName(analysis.Models[k2].Name)
                = cleanSchemaName(analysis.Models[k].Name) => k2 = k}

\* C16: in the document Generate returns, each field of a model that is not
\* tagged json:"-" is a property keyed by its serialization name (the tag name
\* verbatim, else the snake-cased field name), and the key is in the required
\* list exactly when the field's Required flag is set.
C16_PropertiesKeyedBySerializationName ==
    pc = "done" =>
        \A k \in OwnSchema :
            LET model == analysis.Models[k]
                schema == spec.Schemas[cleanSchemaName(model.Name)]
            IN \A i \in 1..Len(model.Fields) :
                  LET field == model.Fields[i]
                      key == SerializationKey(field)
                  IN field.JSONTag # "-" =>
                        /\ key \in DOMAIN schema.Properties
                        /\ key \in Range(schema.Required) <=> field.Required

----------------------------------------------------------------------------
(* Properties of Analyze: the response type of a handler                   *)

\* the statements that set the response type of a handler
Emissions(body) == {i \in 1..Len(body) : body[i].kind \in {"JSON", "Helper"}}

\* the last of them is the statement i
LastEmission(body, i) == i \in Emissions(body) /\ \A j \in Emissions(body) : j <= i

\* the maps, in the order of the priority, that bind the variable to a type
\* the resolution accepts
Bindings(body, var) ==
    LET svc == serviceCallResults(body)
        resp == responseVariables(body)
        types == variableTypes(body)
    IN (IF var \in DOMAIN svc THEN <<svc[var]>> ELSE <<>>)
       \o (IF var \in DOMAIN resp THEN <<resp[var]>> ELSE <<>>)
       \o (IF var \in DOMAIN types /\ isResponseType(types[var]) THEN <<types[var]>> ELSE <<>>)

\* the statement emits a plain variable
EmitsVariable(st) == st.kind = "JSON" /\ st.fn = "Ident" /\ ~st.amp

\* C19: when a response-emission call has a variable as its argument, the
\* response type of the handler comes from serviceCallResult first, then
\* responseVariable, then variableType restricted to response-like names: of
\* the maps that bind the variable, the earliest in that order decides.
C19_ResponsePriority ==
    HandlerAnalyzed =>
        \A i \in 1..Len(last[1].Body) :
            LET body == last[1].Body
            IN /\ LastEmission(body, i)
               /\ EmitsVariable(body[i])
               /\ Bindings(body, body[i].var) # <<>>
               => handlers[last[1].Name].ResponseType
                      = Analyzer_cleanTypeName(Bindings(body, body[i].var)[1])

\* a handler emitted a variable that two maps bind to different types, and
\* the response type is that of the earlier map
C19_Witness ==
    /\ HandlerAnalyzed
    /\ \E i \in 1..Len(last[1].Body) :
          LET body == last[1].Body
              found == Bindings(body, body[i].var)
          IN /\ LastEmission(body, i)
             /\ EmitsVariable(body[i])
             /\ Len(found) >= 2
             /\ found[1] # found[2]
             /\ body[i].var \in DOMAIN serviceCallResults(body)
             /\ handlers[last[1].Name].ResponseType = Analyzer_cleanTypeName(found[1])

\* the statement emits a literal of the untyped map of the framework
EmitsMapLiteral(st) ==
    /\ st.kind = "JSON"
    /\ st.fn = "CompositeLit"
    /\ st.expr = <<SelectorExpr(Ident("fiber"), "Map")>>

\* C20: a response-emission call whose argument is a literal of the untyped
\* map of the framework, c.JSON(fiber.Map{...}), sets the response type of the
\* handler to StandardResponse.
C20_UntypedMapGivesStandardResponse ==
    HandlerAnalyzed =>
        \A i \in 1..Len(last[1].Body) :
            LastEmission(last[1].Body, i) /\ EmitsMapLiteral(last[1].Body[i])
            => handlers[last[1].Name].ResponseType = "StandardResponse"

\* the body without its statement i
Without(body, i) == SubSeq(body, 1, i - 1) \o SubSeq(body, i + 1, Len(body))

\* the response type the handler has when the statement i is left out
ResponseTypeWithout(funcDecl, i) ==
    LET rest == FuncDecl(funcDecl.Name, funcDecl.Params, Without(funcDecl.Body, i))
        pick == CHOOSE c \in QueryVarChoices(rest.Body) : TRUE
    IN analyzeHandlerFunction(rest, pick, analysis.Models)[1].ResponseType

\* the statements the second pass recognizes
RecognizedCalls(body) ==
    {i \in 1..Len(body) :
        body[i].kind \in {"AssignQuery", "Query", "TypedQuery", "QueryParser", "BodyParser",
                          "JSON", "Helper"}}

\* C21: an unrecognized pattern contributes nothing: a response-emission call
\* whose argument is a variable that none of serviceCallResult,
\* responseVariable and response-like variableType binds leaves the response
\* type as it was before the call, and a handler with no recognized call ends
\* with an empty request type, an empty response type and no query parameter.
C21_UnrecognizedContributesNothing ==
    HandlerAnalyzed =>
        LET body == last[1].Body
            info == handlers[last[1].Name]
        IN /\ \A i \in 1..Len(body) :
                  /\ LastEmission(body, i)
                  /\ EmitsVariable(body[i])
                  /\ Bindings(body, body[i].var) = <<>>
                  => info.ResponseType = ResponseTypeWithout(last[1], i)
           /\ RecognizedCalls(body) = {}
                  => /\ info.RequestType = ""
                     /\ info.ResponseType = ""
                     /\ info.QueryParameters = <<>>

----------------------------------------------------------------------------
(* Properties of Analyze: query parser bindings                            *)

\* the handler analyzed last binds a struct from the query, once, and fetches
\* no parameter in another way
BindsQueryStruct ==
    /\ HandlerAnalyzed
    /\ \E i \in 1..Len(last[1].Body) :
          /\ last[1].Body[i].kind = "QueryParser"
          /\ \A j \in 1..Len(last[1].Body) :
                j # i => last[1].Body[j].kind \notin {"QueryParser", "Query", "AssignQuery",
                                                      "TypedQuery"}

\* the variable the handler binds
BoundQueryVariable ==
    LET body == last[1].Body
    IN body[CHOOSE i \in 1..Len(body) : body[i].kind = "QueryParser"].var

\* the exported fields of the struct type the variable resolves to: of the
\* model of its named type (declared, or created with new), or of the
\* anonymous struct it holds; <<>> when the type does not resolve
ResolvedFields ==
    LET body == last[1].Body
        var == BoundQueryVariable
        types == variableTypes(body)
        anon == anonymousStructs(body)
    IN IF var \in DOMAIN anon THEN parseStruct("", anon[var]).Fields
       ELSE IF var \in DOMAIN types
               /\ Analyzer_cleanTypeName(types[var]) \in DOMAIN analysis.Models
       THEN analysis.Models[Analyzer_cleanTypeName(types[var])].Fields
       ELSE <<>>

\* the name of the parameter of a field: the name of the tag, else the
\* snake-cased field name
ParameterName(field) ==
    IF FirstPart(field.JSONTag) \notin {"", "-"} THEN FirstPart(field.JSONTag)
    ELSE Analyzer_toSnakeCase(field.Name)

\* C26: for a query-parser binding call whose argument variable's struct type
\* resolves (the variable was declared with a named type, holds an anonymous
\* struct, or was created with new(T)) exactly one query parameter is produced
\* per exported field of the struct, named by the tag name or else the
\* snake-cased field name, with default 0 for skip and offset, default 100 for
\* limit and the enum asc, desc for sort_order; if the type does not resolve,
\* no parameter is produced.
C26_QueryParserParameters ==
    BindsQueryStruct =>
        LET params == handlers[last[1].Name].QueryParameters
            fields == ResolvedFields
        IN /\ Len(params) = Len(fields)
           /\ \A i \in 1..Len(fields) :
                 /\ params[i].Name = ParameterName(fields[i])
                 /\ params[i].Name \in {"skip", "offset"} => params[i].Default = IntDefault(0)
                 /\ params[i].Name = "limit" => params[i].Default = IntDefault(100)
                 /\ params[i].Name = "sort_order" => Range(params[i].Enum) = {"asc", "desc"}

----------------------------------------------------------------------------
(* Properties of Analyze: routes                                           *)

\* a step of parseRegisterRoutesFunction that appends a route
RouteAdded ==
    /\ pc = "parseRoutes"
    /\ pc' = "parseRoutes"
    /\ Len(analysis'.Routes) = Len(analysis.Routes) + 1

\* the route of such a step
NewRoute == analysis'.Routes[Len(analysis'.Routes)]

\* a route is added for a handler whose anonymous request model has a name
\* that is a key of the model table, of another model: the request body is the
\* handler's model under the name handlerName + originalName, registered
\* under that name, and the entry of the original name is as it was
C22_Step ==
    RouteAdded /\ NewRoute.Handler \in DOMAIN handlers
        => LET h == NewRoute.Handler
               own == handlers[h].AnonymousRequestModel
           IN /\ own # <<>>
              /\ own[1].Name \in DOMAIN analysis.Models
              /\ analysis.Models[own[1].Name] # own[1]
              => LET renamed == [own[1] EXCEPT !.Name = h \o own[1].Name]
                 IN /\ NewRoute.RequestBody = <<renamed>>
                    /\ renamed.Name \in DOMAIN analysis'.Models
                    /\ analysis'.Models[renamed.Name] = renamed
                    /\ analysis'.Models[own[1].Name] = analysis.Models[own[1].Name]

\* C22: when the anonymous request model of a handler has a name that is
\* already a key of the model table (a declared model, or the anonymous model
\* of another handler), the request body of the route is the handler's own
\* model, registered under handlerName + originalName; the entry that was
\* there is neither used for the route nor overwritten.
C22_CollisionRegistersOwnModel == [][C22_Step]_vars

\* the selector names of the interior arguments of a registration call that
\* are calls
InteriorCallNames(callExpr) ==
    LET args == callExpr.Args
        names[i \in 1..Len(args)] ==
            IF i = 1 THEN <<>>
            ELSE IF i < Len(args) /\ args[i].kind = "CallExpr" /\ args[i].text # ""
            THEN Append(names[i - 1], args[i].text)
            ELSE names[i - 1]
    IN names[Len(args)]

\* the name contains auth, in any case
NamesAuth(name) ==
    \E i \in 1..Len(name) :
        i + 3 <= Len(name) /\ ToLower(SubSeq(name, i, i + 3)) = "auth"

\* a step of parseRegisterRoutesFunction that visits a call
CallVisited == pc = "parseRoutes" /\ visits' = visits + 1 /\ last' # <<>>

\* the route added for a registration call records as middleware the selector
\* names of its interior call arguments, and its operation carries the
\* bearer-security requirement exactly when one of them contains auth
C24_Step ==
    RouteAdded /\ CallVisited =>
        /\ NewRoute.Middleware = InteriorCallNames(last'[1])
        /\ generateOperation(NewRoute).Security
               <=> \E i \in 1..Len(NewRoute.Middleware) : NamesAuth(NewRoute.Middleware[i])

\* C24: an operation carries the bearer-security requirement if and only if
\* at least one middleware name recorded for its route contains the substring
\* auth case-insensitively; the middleware names are exactly the selector
\* names of the interior positional arguments of the registration call that
\* are themselves calls.
C24_SecurityFollowsAuthMiddleware == [][C24_Step]_vars

\* a route was registered with a middleware call whose selector name has auth
\* in another case, next to none, and its operation is secured
C24_Witness ==
    /\ pc = "parseRoutes"
    /\ last # <<>>
    /\ Len(analysis.Routes) >= 1
    /\ LET route == analysis.Routes[Len(analysis.Routes)]
       IN /\ route.Middleware = InteriorCallNames(last[1])
          /\ route.Middleware = <<"RequireAuth">>
          /\ generateOperation(route).Security

\* a registration call counts as a candidate route: verb, at least two
\* arguments, a literal path first and a handler identifier last
IsCandidate(callExpr) ==
    /\ isHTTPMethod(ToUpper(callExpr.Sel))
    /\ Len(callExpr.Args) >= 2
    /\ callExpr.Args[1].kind = "BasicLit"
    /\ callExpr.Args[Len(callExpr.Args)].kind = "Ident"

\* the visit of a candidate adds the route with the path of the base, the
\* group of the receiver and the literal; the visit of a call whose first
\* argument is no literal, or whose last is no identifier, adds none
C27_Step ==
    CallVisited =>
        LET callExpr == last'[1]
            args == callExpr.Args
            prefix == IF callExpr.X \in DOMAIN routeGroups THEN routeGroups[callExpr.X]
                      ELSE ""
        IN /\ IsCandidate(callExpr) =>
                 /\ RouteAdded
                 /\ NewRoute.Path = "/" \o packageName \o prefix \o TrimQuotes(args[1].text)
           /\ Len(args) >= 1
                 /\ (args[1].kind # "BasicLit" \/ args[Len(args)].kind # "Ident")
                 => analysis'.Routes = analysis.Routes

\* C27: for every candidate route call the route path is "/" + package name,
\* then the prefix of the tracked group when the receiver identifier names a
\* group registered by an earlier assignment ident := X.Group("<literal>"),
\* then the literal path; a call whose first argument is not a path literal,
\* or whose last argument is not an identifier, produces no route.
C27_RoutePathAndCandidates == [][C27_Step]_vars

\* the response types that name a baseline schema
Sentinels == {"StandardResponse", "ErrorResponse"}

\* a route is added for a handler whose response type is a sentinel that no
\* model is named after: the operation of the route has a 200 response whose
\* content references the baseline schema of the sentinel
C29_Step ==
    RouteAdded /\ NewRoute.Handler \in DOMAIN handlers
        => LET responseType == handlers[NewRoute.Handler].ResponseType
           IN responseType \in Sentinels /\ responseType \notin DOMAIN analysis.Models
              => generateOperation(NewRoute).Responses["200"] = <<RefSchema(responseType)>>

\* C29: when the inferred response type of a handler is one of the sentinels
\* StandardResponse and ErrorResponse (set by createSuccessResponse or
\* createErrorResponse, or by the untyped-map rule) and no declared model has
\* that name, the operation generated for a route bound to the handler has a
\* 200 response whose content references the corresponding baseline schema.
C29_SentinelReferencesBaseline == [][C29_Step]_vars

----------------------------------------------------------------------------
(* Properties of Generate: the required lists                              *)

\* C28: in the document Generate returns, every entry of the required list of
\* a component schema is a key of the properties of that schema: the pass
\* that renames the property keys to snake case leaves no required entry that
\* names a property that is gone.
C28_RequiredNamesProperties ==
    pc = "done" =>
        \A name \in DOMAIN spec.Schemas :
            Range(spec.Schemas[name].Required) \subseteq DOMAIN spec.Schemas[name].Properties

----------------------------------------------------------------------------
(* Properties of Generate: parameters                                      *)

\* the parameters of an operation that are not located in the path, in order
NonPathParameters(operation) ==
    LET IsOther(param) == param.In # "path"
    IN SelectSeq(operation.Parameters, IsOther)

\* the step of the path-parameter reconciliation leaves, in every operation,
\* the parameters outside the path as they were and in their order
C25_Step ==
    pc = "validatePaths" /\ pc' = "removeInvalidReferences" =>
        /\ OperationsOf(spec'.Paths) = OperationsOf(spec.Paths)
        /\ \A ps \in OperationsOf(spec.Paths) :
              NonPathParameters(spec'.Paths[ps[1]][ps[2]][1])
                  = NonPathParameters(spec.Paths[ps[1]][ps[2]][1])

\* C25: the path-parameter reconciliation leaves every non-path parameter of
\* an operation untouched: each query or header parameter present before the
\* pass is present after it with the same fields, none is added, and their
\* relative order is preserved.
C25_NonPathParametersUntouched == [][C25_Step]_vars

\* the reconciliation is through an operation that has a query parameter and,
\* after it, a path parameter the pass injected
C25_Witness ==
    /\ pc = "removeInvalidReferences"
    /\ \E ps \in OperationsOf(spec.Paths) :
          LET params == spec.Paths[ps[1]][ps[2]][1].Parameters
          IN \E i, j \in 1..Len(params) :
                /\ i < j
                /\ params[i].In = "query"
                /\ params[j].In = "path"

\* the routes of the analysis carry the path parameters parseRouteCall gives
\* them: the tokens of their path, in order
RoutesAsParsed ==
    \A i \in 1..Len(analysis.Routes) :
        LET IsPath(param) == param.In = "path"
        IN SelectSeq(analysis.Routes[i].Parameters, IsPath)
               = extractPathParameters(analysis.Routes[i].Path)

\* C30: in every operation of the final document the parameters are unique
\* by name and location: no operation lists two parameters with the same
\* name and the same location, even when the handler fetches a query
\* parameter more than once or the path repeats a parameter token.
C30_ParametersUniqueByNameAndLocation ==
    pc = "done" /\ RoutesAsParsed =>
        \A operation \in Operations(spec) :
            \A i, j \in 1..Len(operation.Parameters) :
                /\ operation.Parameters[i].Name = operation.Parameters[j].Name
                /\ operation.Parameters[i].In = operation.Parameters[j].In
                => i = j

(***************************************************************************)
(* generateSchemaFromField on the type strings of fields                   *)
(*                                                                         *)
(* A model field arrives with the type string the analyzer printed; the    *)
(* generator maps it to a schema.                                          *)
(***************************************************************************)
\* the forms and the named types the type strings are built from
TypeForms == {"", "*", "[]", "[]*", "map[string]", "map[string]*", "map[int]", "map[string][]"}

TypeNames ==
    {"string", "int", "int64", "uint8", "float64", "bool", "byte", "error",
     "time.Time", "Time", "interface{}", "any", "User", "sdk.User", "user",
     "Point", "Status", "Missing"}

FieldTypes == {form \o name : form \in TypeForms, name \in TypeNames}

InitField ==
    /\ analysis = [Models |-> <<>>, Routes |-> <<>>]
    /\ pc = "field"
    /\ spec = Spec0
    /\ todo = {}
    /\ processedPaths = {}
    /\ tags = {}
    /\ routeIdx = 1
    /\ prev = <<>>
    /\ last \in {<<Fld("Value", type, "value", required)>> :
                    type \in FieldTypes, required \in BOOLEAN}
    /\ visits = 0
    /\ handlers = <<>>
    /\ anonymousModels = <<>>
    /\ returned = <<>>
    /\ routeGroups = <<>>
    /\ project = [sdkDir |-> TRUE, routesDir |-> TRUE]

\* generateSchemaFromModel maps the field to its schema
GenerateSchemaFromField ==
    /\ pc = "field"
    /\ returned' = <<generateSchemaFromField(last[1])>>
    /\ pc' = "schema"
    /\ UNCHANGED <<analysis, last, visits, handlers, anonymousModels>>
    /\ UNCHANGED <<spec, todo, processedPaths, tags, routeIdx, prev, project, routeGroups>>

NextField == GenerateSchemaFromField

SpecField == InitField /\ [][NextField]_vars

\* the field has its schema
FieldMapped == pc = "schema"

\* the raw type string of the field, pointer markers ignored
RawType == RemoveChar(last[1].OriginalType, "*")

\* the value type V of a raw type string map[K]V
MapValue(raw) == SubSeq(raw, Index(raw, "]") + 1, Len(raw))

IsArrayForm(raw) == HasPrefix(raw, "[]")
IsTemporal(raw) == Contains(raw, "time.Time") \/ raw = "Time"
IsMapForm(raw) == HasPrefix(raw, "map[")
IsOpenType(raw) == raw \in {"interface{}", "interface", "any"}
IsPrimitive(raw) ==
    \E p \in {"string", "int64", "int32", "int", "float64", "float32", "bool"} :
        Contains(raw, p)

\* the cleaned name starts with an uppercase letter and is no built-in
IsCustomName(name) ==
    LET clean == cleanTypeName(name)
    IN clean # "" /\ IsUpper(Char(clean, 1)) /\ clean \notin builtinTypes

\* C23: the field type mapping takes the first matching of array form,
\* temporal type, map form, open type, primitive substring, custom reference
\* or generic object, so that for every raw type string (pointer markers
\* ignored) a []T field gives an array schema, a map[K]V field gives an object
\* schema whose additionalProperties is true (V open), a reference (V custom)
\* or a schema of its own (else), and a type matching none of the first five
\* rules gives a reference exactly when its cleaned name starts with an
\* uppercase letter and is not a built-in.
C23_FieldTypeMapping ==
    FieldMapped =>
        LET schema == returned[1]
            ap == schema.AdditionalProperties
            v == MapValue(RawType)
        IN /\ IsArrayForm(RawType) => schema.Type = "array" /\ schema.Items # <<>>
           /\ IsMapForm(RawType) =>
                 /\ schema.Type = "object"
                 /\ IsOpenType(v) => ap = TrueAP
                 /\ ~IsOpenType(v) /\ IsCustomName(v) =>
                        ap.kind = "schema" /\ ap.schema[1].Ref # ""
                 /\ ~IsOpenType(v) /\ ~IsCustomName(v) =>
                        ap.kind = "schema" /\ ap.schema[1].Ref = ""
           /\ ~IsArrayForm(RawType) /\ ~IsTemporal(RawType) /\ ~IsMapForm(RawType)
                 /\ ~IsOpenType(RawType) /\ ~IsPrimitive(RawType) =>
                 (schema.Ref # "" <=> IsCustomName(RawType))

====
